---- MODULE Spec2Model ----
(***************************************************************************)
(* The mood-to-tracks pipeline of the Moodify app: the fetchSongsByMood     *)
(* function in its five copies, the token operations it relies on          *)
(* (authenticateSpotify, getSpotifyToken, getAccessToken), the result      *)
(* cache and the filter / de-duplication step.                             *)
(*                                                                         *)
(* One behaviour is the life of one loaded JavaScript module (variant):    *)
(* its module-level state (cache, accessToken, tokenExpiresAt) and the     *)
(* async calls that run against it.  Every await is a point where other    *)
(* calls may run, so each call has a position (pc) and each network        *)
(* response is its own step.                                               *)
(*                                                                         *)
(* The spotify-auth function, which has no state of its own, and the two   *)
(* token caches run side by side have their own specifications.            *)
(***************************************************************************)
EXTENDS Integers, Sequences, FiniteSets, TLC

(***************************************************************************)
(* Bounds of the model.                                                    *)
(***************************************************************************)
\* call slots that may be in flight at the same time
MaxCalls == 2
\* invocations by callers that wait for one call before the next
MaxInvocations == 2
\* invocations by callers that overlap
MaxOverlapInvocations == 3
\* playlists in one search response
MaxPlaylists == 2
\* clock ticks
MaxTicks == 2

Calls == 1..MaxCalls

\* one tick of the clock, in milliseconds
TickMs == 30 * 1000

NULL == "null"

(***************************************************************************)
(* Strings are sequences of one-character strings, so that toLowerCase,    *)
(* includes and the template literal of the cache key are computed.        *)
(***************************************************************************)
UpperChars == <<"A","B","C","D","E","F","G","H","I","J","K","L","M",
                "N","O","P","Q","R","S","T","U","V","W","X","Y","Z">>
LowerChars == <<"a","b","c","d","e","f","g","h","i","j","k","l","m",
                "n","o","p","q","r","s","t","u","v","w","x","y","z">>

\* String.prototype.toLowerCase, one character
lowerChar(ch) ==
    IF \E i \in 1..Len(UpperChars) : UpperChars[i] = ch
    THEN LowerChars[CHOOSE i \in 1..Len(UpperChars) : UpperChars[i] = ch]
    ELSE ch

\* String.prototype.toLowerCase
toLowerCase(s) == [i \in 1..Len(s) |-> lowerChar(s[i])]

\* String.prototype.includes
includes(s, kw) ==
    \E i \in 0..(Len(s) - Len(kw)) : SubSeq(s, i + 1, i + Len(kw)) = kw

\* const BLOCKED_KEYWORDS = [ ... ]  (the same list in every copy)
BLOCKED_KEYWORDS == {
    <<"h","a","p","p","y"," ","b","i","r","t","h","d","a","y">>,
    <<"a","c","o","u","s","t","i","c">>, <<"a","f","r","o","b","e","a","t">>,
    <<"a","l","t","-","r","o","c","k">>, <<"a","l","t","e","r","n","a","t","i","v","e">>,
    <<"a","m","b","i","e","n","t">>, <<"a","n","i","m","e">>,
    <<"b","l","a","c","k","-","m","e","t","a","l">>, <<"b","l","u","e","g","r","a","s","s">>,
    <<"b","l","u","e","s">>, <<"b","o","s","s","a","n","o","v","a">>, <<"b","r","a","z","i","l">>,
    <<"b","r","e","a","k","b","e","a","t">>, <<"b","r","i","t","i","s","h">>,
    <<"c","a","n","t","o","p","o","p">>, <<"c","h","i","c","a","g","o","-","h","o","u","s","e">>,
    <<"c","h","i","l","d","r","e","n">>, <<"c","h","i","l","l">>,
    <<"c","l","a","s","s","i","c","a","l">>, <<"c","l","u","b">>, <<"c","o","m","e","d","y">>,
    <<"c","o","u","n","t","r","y">>, <<"d","a","n","c","e">>,
    <<"d","a","n","c","e","h","a","l","l">>, <<"d","e","a","t","h","-","m","e","t","a","l">>,
    <<"d","e","e","p","-","h","o","u","s","e">>,
    <<"d","e","t","r","o","i","t","-","t","e","c","h","n","o">>, <<"d","i","s","c","o">>,
    <<"d","i","s","n","e","y">>, <<"d","r","u","m","-","a","n","d","-","b","a","s","s">>,
    <<"d","u","b">>, <<"d","u","b","s","t","e","p">>, <<"e","d","m">>,
    <<"e","l","e","c","t","r","o">>, <<"e","l","e","c","t","r","o","n","i","c">>, <<"e","m","o">>,
    <<"f","o","l","k">>, <<"f","o","r","r","o">>, <<"f","r","e","n","c","h">>, <<"f","u","n","k">>,
    <<"g","a","r","a","g","e">>, <<"g","e","r","m","a","n">>, <<"g","o","s","p","e","l">>,
    <<"g","o","t","h">>, <<"g","r","i","n","d","c","o","r","e">>, <<"g","r","o","o","v","e">>,
    <<"g","r","u","n","g","e">>, <<"g","u","i","t","a","r">>, <<"h","a","p","p","y">>,
    <<"h","a","r","d","-","r","o","c","k">>, <<"h","a","r","d","c","o","r","e">>,
    <<"h","a","r","d","s","t","y","l","e">>, <<"h","e","a","v","y","-","m","e","t","a","l">>,
    <<"h","i","p","-","h","o","p">>, <<"h","o","l","i","d","a","y","s">>,
    <<"h","o","n","k","y","-","t","o","n","k">>, <<"h","o","u","s","e">>, <<"i","d","m">>,
    <<"i","n","d","i","a","n">>, <<"i","n","d","i","e">>, <<"i","n","d","i","e","-","p","o","p">>,
    <<"i","n","d","u","s","t","r","i","a","l">>, <<"i","r","a","n","i","a","n">>,
    <<"j","-","d","a","n","c","e">>, <<"j","-","i","d","o","l">>, <<"j","-","p","o","p">>,
    <<"j","-","r","o","c","k">>, <<"j","a","z","z">>, <<"k","-","p","o","p">>, <<"k","i","d","s">>,
    <<"l","a","t","i","n">>, <<"l","a","t","i","n","o">>, <<"m","a","l","a","y">>,
    <<"m","a","n","d","o","p","o","p">>, <<"m","e","t","a","l">>,
    <<"m","e","t","a","l","-","m","i","s","c">>, <<"m","e","t","a","l","c","o","r","e">>,
    <<"m","i","n","i","m","a","l","-","t","e","c","h","n","o">>, <<"m","o","v","i","e","s">>,
    <<"m","p","b">>, <<"n","e","w","-","a","g","e">>,
    <<"n","e","w","-","r","e","l","e","a","s","e">>, <<"o","p","e","r","a">>,
    <<"p","a","g","o","d","e">>, <<"p","a","r","t","y">>,
    <<"p","h","i","l","i","p","p","i","n","e","s","-","o","p","m">>, <<"p","i","a","n","o">>,
    <<"p","o","p">>, <<"p","o","p","-","f","i","l","m">>,
    <<"p","o","s","t","-","d","u","b","s","t","e","p">>, <<"p","o","w","e","r","-","p","o","p">>,
    <<"p","r","o","g","r","e","s","s","i","v","e","-","h","o","u","s","e">>,
    <<"p","s","y","c","h","-","r","o","c","k">>, <<"p","u","n","k">>,
    <<"p","u","n","k","-","r","o","c","k">>, <<"r","-","n","-","b">>,
    <<"r","a","i","n","y","-","d","a","y">>, <<"r","e","g","g","a","e">>,
    <<"r","e","g","g","a","e","t","o","n">>, <<"r","o","a","d","-","t","r","i","p">>,
    <<"r","o","c","k">>, <<"r","o","c","k","-","n","-","r","o","l","l">>,
    <<"r","o","c","k","a","b","i","l","l","y">>, <<"r","o","m","a","n","c","e">>, <<"s","a","d">>,
    <<"s","a","l","s","a">>, <<"s","a","m","b","a">>, <<"s","e","r","t","a","n","e","j","o">>,
    <<"s","h","o","w","-","t","u","n","e","s">>,
    <<"s","i","n","g","e","r","-","s","o","n","g","w","r","i","t","e","r">>, <<"s","k","a">>,
    <<"s","l","e","e","p">>, <<"s","o","n","g","w","r","i","t","e","r">>, <<"s","o","u","l">>,
    <<"s","o","u","n","d","t","r","a","c","k","s">>, <<"s","p","a","n","i","s","h">>,
    <<"s","t","u","d","y">>, <<"s","u","m","m","e","r">>, <<"s","w","e","d","i","s","h">>,
    <<"s","y","n","t","h","-","p","o","p">>, <<"t","a","n","g","o">>, <<"t","e","c","h","n","o">>,
    <<"t","r","a","n","c","e">>, <<"t","r","i","p","-","h","o","p">>,
    <<"t","u","r","k","i","s","h">>, <<"w","o","r","k","-","o","u","t">>,
    <<"w","o","r","l","d","-","m","u","s","i","c">>
}

(***************************************************************************)
(* Upstream data.  A value that may be null is a sequence of at most one   *)
(* element; a playlist id is a positive number and 0 is a missing id.      *)
(***************************************************************************)
Str_HappyBirthdaySong ==
    <<"H","a","p","p","y"," ","B","i","r","t","h","d","a","y"," ","S","o","n","g">>
Str_Sunshine == <<"S","u","n","s","h","i","n","e">>
Str_DanceTonight == <<"D","a","n","c","e"," ","T","o","n","i","g","h","t">>
Str_Moonlight == <<"M","o","o","n","l","i","g","h","t">>

TrackNames == {Str_HappyBirthdaySong, Str_Sunshine, Str_DanceTonight, Str_Moonlight}

\* a raw item { track: { id, name, artists, album, ... } }
rawItem(id, name) == [track |-> <<[id |-> id, name |-> name, artists |-> TRUE]>>]
\* a raw item whose track is an episode: { track: { id, name, ... } } with
\* neither artists nor album
episodeItem(id, name) == [track |-> <<[id |-> id, name |-> name, artists |-> FALSE]>>]
\* { track: null }
ItemNoTrack == [track |-> <<>>]
\* { track: { id: null, ... } }
ItemNoId == rawItem(NULL, Str_Sunshine)

\* the pages (trackData.items) a playlist may hold upstream
PageA == <<rawItem("t1", Str_HappyBirthdaySong), ItemNoTrack, rawItem("t2", Str_Sunshine)>>
PageB == <<rawItem("t2", Str_Sunshine), rawItem("t3", Str_DanceTonight), ItemNoId,
           rawItem("t4", Str_Moonlight)>>
Pages == {PageA, PageB}
\* a page that holds an episode between two tracks
PageC == <<rawItem("t4", Str_Moonlight), episodeItem("e1", Str_Sunshine),
           rawItem("t2", Str_Sunshine)>>
\* a page that starts with a track no other page holds
PageD == <<rawItem("t5", Str_Moonlight), rawItem("t2", Str_Sunshine)>>

SeqsUpTo(S, n) == UNION {[1..k -> S] : k \in 0..n}

\* the playlist ids upstream, by search rank
PlaylistIds == 1..MaxPlaylists

\* searchData.playlists.items of a search response: the playlists by rank,
\* each { id } or an entry without id
SearchResponses ==
    {s \in SeqsUpTo([id : 0..MaxPlaylists], MaxPlaylists) :
        \A i \in 1..Len(s) : s[i].id \in {0, i}}

\* the shape of the body of a search response (searchData)
\* { playlists: { items: [...] } }
Body_List == "list"
\* '' (no body at all)
Body_Empty == "empty"
\* null
Body_Null == "null"
\* {}
Body_NoPlaylists == "noPlaylists"
\* { playlists: {} }
Body_NoItems == "noItems"
\* { playlists: { items: {...} } }: items is an object, not an array
Body_ItemsNotList == "itemsNotList"
MalformedBodies ==
    {Body_Empty, Body_Null, Body_NoPlaylists, Body_NoItems, Body_ItemsNotList}

\* what upstream holds: the answer to the search and the page of every
\* playlist; a body without the list of playlists names no playlist
Catalogs ==
    [body : {Body_List}, ranking : SearchResponses, pages : [PlaylistIds -> Pages]]
    \cup [body : MalformedBodies, ranking : {<<>>}, pages : {[i \in PlaylistIds |-> PageA]}]

Str_sad == <<"s","a","d">>
Str_Party == <<"P","a","r","t","y">>
Str_US == <<"U","S">>
Moods == {Str_sad, Str_Party}
Markets == {Str_US}
\* the pairs (mood, market) of the callers
MoodMarketPairs == Moods \X Markets

\* two pairs of strings with an underscore on either side of the separator
Str_lo == <<"l","o">>
Str_lo_fi == <<"l","o","_","f","i">>
Str_fi_US == <<"f","i","_","U","S">>
UnderscorePairs == {<<Str_lo_fi, Str_US>>, <<Str_lo, Str_fi_US>>}

\* expires_in of a token response, in seconds
ExpiresInChoices == {60, 120}

(***************************************************************************)
(* The copies of the pipeline.                                             *)
(***************************************************************************)
\* part_003:62   proxy through the Netlify function, one array per playlist
V_NetlifyProxy == "netlifyProxy"
\* part_003:188  proxy through the local express server
V_LocalProxy == "localProxy"
\* part_003:377  token exchange from the browser
V_DirectAuth == "directAuth"
\* part_008:79   token from the spotify-auth function
V_NetlifyAuth == "netlifyAuth"
\* part_001:495  as part_008, errors rethrown
V_NetlifyAuthRethrow == "netlifyAuthRethrow"

\* part_005       the local express proxy: getSpotifyToken and its two routes
V_ProxyServer == "proxyServer"
\* functions/spotify.js  the Netlify proxy function: getAccessToken and handler
V_NetlifyFunction == "netlifyFunction"

ClientVariants ==
    {V_NetlifyProxy, V_LocalProxy, V_DirectAuth, V_NetlifyAuth, V_NetlifyAuthRethrow}
\* the copies that call authenticateSpotify
AuthVariants == {V_DirectAuth, V_NetlifyAuth, V_NetlifyAuthRethrow}
ServerVariants == {V_ProxyServer, V_NetlifyFunction}
\* the modules that keep a token
TokenVariants == AuthVariants \cup ServerVariants
Variants == ClientVariants \cup ServerVariants

\* event.httpMethod
Methods == {"GET", "POST"}
\* the status of an error response of the Spotify API
ErrorStatuses == {401, 404}

VARIABLES
    variant,         \* which copy of the module is loaded
    catalog,         \* what upstream holds
    inputs,          \* the (mood, market) pairs the callers ask for
    session,         \* authService, localStorage and the state of AuthWrapper
    app,             \* the state of MainApp and of the MoodInput it renders
    probe,           \* getAccessToken and getSpotifyToken run side by side on one clock
    authFn,          \* the spotify-auth function: its environment and its invocation
    now,             \* Date.now(), in ms
    ticks,           \* clock ticks so far
    accessToken,     \* let accessToken = null  (0 is null)
    tokenExpiresAt,  \* let tokenExpiresAt = 0
    issued,          \* the expires_in of the tokens upstream has issued; the n-th token is n
    cache,           \* const cache = new Map()
    arrays,          \* arrays created so far; the n-th array has identity n
    calls,           \* the async calls in flight, one record per slot
    budget,          \* invocations the callers have left
    returned,        \* the settlement of a fetchSongsByMood promise in the step just taken
    firstStored      \* per key, the identity of the first array stored under it

vars == <<variant, catalog, inputs, session, app, probe, authFn, now, ticks, accessToken, tokenExpiresAt, issued,
          cache, arrays, calls, budget, returned, firstStored>>

(***************************************************************************)
(* Pure parts of fetchSongsByMood.                                         *)
(***************************************************************************)
\* const key = `${mood}_${market}`
cacheKey(mood, market) == mood \o <<"_">> \o market

AllKeys == {cacheKey(p[1], p[2]) : p \in MoodMarketPairs \cup UnderscorePairs}

\* an array with its identity and the arguments of the call that created
\* it; ref 0 is "no array"
NoList ==
    [ref |-> 0, items |-> <<>>, mood |-> <<>>, market |-> <<>>,
     playlistLimit |-> 0, trackLimit |-> 0]

\* the filter without toLowerCase
nameBlockedCaseSensitive(name) == \E kw \in BLOCKED_KEYWORDS : includes(name, kw)

\* BLOCKED_KEYWORDS.some((kw) => name.toLowerCase().includes(kw))
nameBlocked(name) == \E kw \in BLOCKED_KEYWORDS : includes(toLowerCase(name), kw)

\* the filter's verdict on each name the model uses
NameBlockedTable == [n \in TrackNames |-> nameBlocked(n)]

\* if (!t?.id) return;  if (BLOCKED_KEYWORDS.some(...)) return;
keepItem(item) ==
    /\ item.track # <<>>
    /\ item.track[1].id # NULL
    /\ ~NameBlockedTable[item.track[1].name]

\* the record pushed for an item; src stands for the fields that tell the
\* record of one playlist from the record of another (the object itself)
toTrack(item, src) ==
    [id |-> item.track[1].id, title |-> item.track[1].name, src |-> src]

\* t.artists.map((a) => a.name) on an item that passed the filter: a
\* TypeError when the track has no artists
itemThrows(item) == keepItem(item) /\ ~item.track[1].artists

\* the callback throws on some item of the page
pageThrows(items) == \E n \in 1..Len(items) : itemThrows(items[n])

RECURSIVE processItems(_, _)
\* (trackData.items || []).forEach(...): the records pushed, up to the item
\* on which the callback throws
processItems(items, src) ==
    IF items = <<>> \/ itemThrows(Head(items)) THEN <<>>
    ELSE (IF keepItem(Head(items)) THEN <<toTrack(Head(items), src)>> ELSE <<>>)
         \o processItems(Tail(items), src)

\* return (trackData.items || []).map(...).filter(Boolean) inside the try,
\* return [] from the catch (part_003:91-109)
mappedItems(items, src) ==
    IF pageThrows(items) THEN <<>> ELSE processItems(items, src)

RECURSIVE flat(_)
\* nestedTracks.flat()
flat(nested) == IF nested = <<>> THEN <<>> ELSE Head(nested) \o flat(Tail(nested))

\* Map.prototype.set on a Map kept as its sequence of entries: an existing
\* key keeps its place and takes the new value, a new key is appended
mapSet(m, t) ==
    IF \E i \in 1..Len(m) : m[i].id = t.id
    THEN [i \in 1..Len(m) |-> IF m[i].id = t.id THEN t ELSE m[i]]
    ELSE Append(m, t)

RECURSIVE mapOf(_, _)
\* new Map(tracks.map((t) => [t.id, t])), entries inserted in order
mapOf(m, tracks) ==
    IF tracks = <<>> THEN m ELSE mapOf(mapSet(m, Head(tracks)), Tail(tracks))

\* the flattened array returned as it is
noDedup(tracks) == tracks

\* Array.from(new Map(tracks.map((t) => [t.id, t])).values())
uniqueTracksOf(tracks) == mapOf(<<>>, tracks)

\* no test at all: whatever is stored counts as a token
tokenValidUnchecked(tok, exp, t) == TRUE

\* the test without the one-minute buffer
tokenValidNoSkew(tok, exp, t) == tok # 0 /\ t < exp

\* authenticateSpotify, getSpotifyToken:
\* accessToken && Date.now() < tokenExpiresAt - 60 * 1000
tokenValid(tok, exp, t) == tok # 0 /\ t < exp - 60 * 1000

\* tokenExpiresAt = Date.now() + data.expires_in * 1000
expiryOf(t, expires_in) == t + expires_in * 1000

\* getAccessToken: tokenCache.accessToken && Date.now() < tokenCache.expiresAt
tokenCacheValid(tok, exp, t) == tok # 0 /\ t < exp

\* the expiry stored without the buffer
tokenCacheExpiryNoBuffer(t, expires_in) == t + expires_in * 1000

\* tokenCache.expiresAt = Date.now() + (data.expires_in - 60) * 1000
tokenCacheExpiryOf(t, expires_in) == t + (expires_in - 60) * 1000

\* the test the loaded module makes before it asks for a token
holdsValidToken(v, tok, exp, t) ==
    IF v = V_NetlifyFunction THEN tokenCacheValid(tok, exp, t)
    ELSE tokenValid(tok, exp, t)

\* the expiry the loaded module stores with a new token
storedExpiry(v, t, expires_in) ==
    IF v = V_NetlifyFunction THEN tokenCacheExpiryOf(t, expires_in)
    ELSE expiryOf(t, expires_in)

(***************************************************************************)
(* Calls.                                                                  *)
(***************************************************************************)
\* playlistLimit = 5
DefaultPlaylistLimit == 5
\* trackLimit = 10
DefaultTrackLimit == 10

\* the locals of one call; pc "idle" is a slot with no call running and
\* "off" a slot no caller uses; order lists the closures in the order in
\* which their requests completed
IdleCall ==
    [pc |-> "idle", mood |-> <<>>, market |-> <<>>,
     playlistLimit |-> DefaultPlaylistLimit, trackLimit |-> DefaultTrackLimit,
     playlists |-> <<>>, fetch |-> <<>>, order |-> <<>>, nested |-> <<>>,
     tracks |-> <<>>,
     nTok |-> 0, nSearch |-> 0, nTrack |-> 0, nUpstream |-> 0]

OffCall == [IdleCall EXCEPT !.pc = "off"]

\* what the caller of a settled call observes, with the locals of the call
NoReturn ==
    [outcome |-> "none", hit |-> FALSE, err |-> "none", ret |-> NoList,
     status |-> 0, method |-> "none", upstream |-> 0,
     mood |-> <<>>, market |-> <<>>, playlistLimit |-> 0, trackLimit |-> 0,
     playlists |-> <<>>, fetch |-> <<>>, order |-> <<>>, tracks |-> <<>>,
     nTok |-> 0, nSearch |-> 0, nTrack |-> 0, nUpstream |-> 0]

\* no side-by-side run
NoProbe ==
    [stage |-> "off", t0 |-> 0, expires_in |-> 0, t |-> 0,
     fnToken |-> 0, fnExpiresAt |-> 0, refToken |-> 0, refExpiresAt |-> 0,
     fnReuses |-> FALSE, refReuses |-> FALSE]

\* the response object of the spotify-auth function; statusCode 0 is none
NoResponse ==
    [statusCode |-> 0, body |-> "none", access_token |-> 0, expires_in |-> 0,
     method |-> "none", nFetch |-> 0]

\* the spotify-auth function is not deployed
NoAuthFn ==
    [copy |-> "none", id |-> FALSE, secret |-> FALSE, left |-> 0,
     pc |-> "off", method |-> "none", nFetch |-> 0, status |-> 0,
     response |-> NoResponse]

\* the frontend is not mounted
NoSession ==
    [authToken |-> 0, userData |-> 0, logins |-> 0, isAuthenticated |-> FALSE,
     currentUser |-> 0, login |-> "off", timers |-> <<>>, logout |-> "off",
     href |-> "none",
     settled |-> "none", failed |-> FALSE, left |-> 0]

\* MainApp is not mounted
NoApp ==
    [currentStep |-> "off", isLoading |-> FALSE, songs |-> "none", mood |-> "none",
     inputMethod |-> "none", submitting |-> FALSE, error |-> FALSE,
     pc |-> "off", settled |-> "none", left |-> 0]

InitState ==
    /\ variant \in Variants
    /\ probe = NoProbe
    /\ session = NoSession
    /\ app = NoApp
    /\ authFn = NoAuthFn
    /\ now = 0
    /\ ticks = 0
    /\ accessToken = 0
    /\ tokenExpiresAt = 0
    /\ issued = <<>>
    /\ cache = [k \in AllKeys |-> NoList]
    /\ arrays = 0
    /\ returned = NoReturn
    /\ firstStored = [k \in AllKeys |-> 0]

\* cache.has(key)
cacheHas(key) == cache[key].ref # 0

\* if (!cache.has(key)) cache.set(key, uniqueTracks): the first writer wins
cacheSetIfAbsent(key, list) ==
    IF cacheHas(key) THEN cache ELSE [cache EXCEPT ![key] = list]

\* if (uniqueTracks.length > 0) cache.set(key, uniqueTracks): an empty
\* result is not kept
cacheSetNonEmpty(key, list) ==
    IF list.items = <<>> THEN cache ELSE [cache EXCEPT ![key] = list]

\* cache.set(key, uniqueTracks)
cacheSet(key, list) == [cache EXCEPT ![key] = list]

\* return [...cache.get(key)]: a copy of the stored array
cacheGetCopy(key) == [cache[key] EXCEPT !.ref = arrays + 1]

\* return cache.get(key)
cacheGet(key) == cache[key]

\* await authenticateSpotify() inside the try of part_003 and part_008
onAuthErrorSwallowed(v) == IF v = V_NetlifyAuthRethrow THEN "rejected" ELSE "resolved"

\* how fetchSongsByMood settles when authenticateSpotify throws: part_003 and
\* part_008 await it outside the try, part_001 rethrows it from the catch
onAuthError(v) == "rejected"

\* how fetchSongsByMood settles when the outer catch runs: return [], or
\* (part_001) throw new Error('Failed to fetch music recommendations...')
onOuterCatch(v) == IF v = V_NetlifyAuthRethrow THEN "rejected" ELSE "resolved"

\* a catch that asks for the token once more
retryTokenOnce(call) == call.nTok < 2

\* the catch of the token operation throws; nothing asks for a token again
retryToken(call) == FALSE

\* closures without their own catch: the join rejects with the first failure
promiseAllFailFast(fetch) ==
    IF \E i \in 1..Len(fetch) : fetch[i] = "failed" THEN "rejected" ELSE "resolved"

\* Promise.any in place of Promise.all: an empty array of promises rejects
promiseAnyOutcome(fetch) == IF fetch = <<>> THEN "rejected" ELSE "resolved"

\* await Promise.all(playlists.map(async (pl) => { try {...} catch {...} })):
\* every closure catches its own error, so the join resolves once all settled
promiseAllOutcome(fetch) == "resolved"

\* const playlists = Array.isArray(searchData.playlists?.items)
\*                     ? searchData.playlists.items : [];
\* (part_003:79: searchData.playlists?.items || [], then playlists.map(...)).
\* Reading .playlists of null throws, and so does .map of a value that is
\* not an array; both land in the outer catch.
playlistsOf(v, cat) ==
    IF cat.body = Body_Null THEN [throws |-> TRUE, items |-> <<>>]
    ELSE IF cat.body = Body_List THEN [throws |-> FALSE, items |-> cat.ranking]
    ELSE IF cat.body = Body_ItemsNotList /\ v = V_NetlifyProxy
         THEN [throws |-> TRUE, items |-> <<>>]
    ELSE [throws |-> FALSE, items |-> <<>>]

\* a join over promises that stay pending when their request fails
joinOverAllFulfilled(fetch) == \A i \in 1..Len(fetch) : fetch[i] \in {"ok", "skipped"}

\* a join that is over as soon as one closure has failed
joinOverFailFast(fetch) ==
    \/ \A i \in 1..Len(fetch) : fetch[i] # "pending"
    \/ \E i \in 1..Len(fetch) : fetch[i] = "failed"

\* await Promise.all(...) is over: every promise of the array is fulfilled
\* (a closure fulfils its promise after its response or in its own catch)
joinOver(fetch) == \A i \in 1..Len(fetch) : fetch[i] # "pending"

keyOf(call) == cacheKey(call.mood, call.market)

\* a new array created by a call
newArray(call, items) ==
    [ref |-> arrays + 1, items |-> items, mood |-> call.mood, market |-> call.market,
     playlistLimit |-> call.playlistLimit, trackLimit |-> call.trackLimit]

\* the promise of fetchSongsByMood settles
settle(call, hit, outcome, err, ret) ==
    [outcome |-> outcome, hit |-> hit, err |-> err, ret |-> ret,
     status |-> 0, method |-> "none", upstream |-> 0,
     mood |-> call.mood, market |-> call.market,
     playlistLimit |-> call.playlistLimit, trackLimit |-> call.trackLimit,
     playlists |-> call.playlists, fetch |-> call.fetch, order |-> call.order,
     tracks |-> call.tracks,
     nTok |-> call.nTok, nSearch |-> call.nSearch, nTrack |-> call.nTrack,
     nUpstream |-> 0]

\* a handler returns (or sends) its response; only the 405 of the function
\* answers another method than GET
respond(call, status, err) ==
    [NoReturn EXCEPT !.outcome = "resolved", !.status = status, !.err = err,
                     !.method = "GET",
                     !.nTok = call.nTok, !.nUpstream = call.nUpstream]

\* a catch that answers 500 whatever the error holds
errorStatusAlways500(v, status) == 500

\* statusCode: error.response ? error.response.status : 500  (the function);
\* res.status(500) (the express routes).  status 0 is "no response"
errorStatus(v, status) ==
    IF v = V_NetlifyFunction /\ status # 0 THEN status ELSE 500

\* axios.get(<Spotify API url>, ...) is sent by a handler
sendUpstream(call) == [call EXCEPT !.pc = "awaitUpstream", !.nUpstream = @ + 1]

\* axios.get(.../search, ...) is sent
sendSearch(call) == [call EXCEPT !.pc = "awaitSearch", !.nSearch = @ + 1]

\* the parameters of a call: a limit the caller leaves out takes its default
callOf(in) ==
    [IdleCall EXCEPT !.mood = in[1], !.market = in[2],
                     !.playlistLimit = IF Len(in) > 2 THEN in[3] ELSE DefaultPlaylistLimit,
                     !.trackLimit = IF Len(in) > 2 THEN in[4] ELSE DefaultTrackLimit]

\* an upstream that ignores the limit parameter
limitIgnored(items, limit) == items

\* params: { limit }: upstream answers with the first limit items at most
limitTo(items, limit) ==
    IF Len(items) <= limit THEN items ELSE SubSeq(items, 1, limit)

\* fetchSongsByMood finds the key in the cache and returns the stored array
InvokeHit(c) ==
    /\ variant \in ClientVariants
    /\ calls[c].pc = "idle"
    /\ budget > 0
    /\ budget' = budget - 1
    /\ \E in \in inputs :
         LET call == callOf(in)
         IN  /\ cacheHas(keyOf(call))
             /\ returned' = settle(call, TRUE, "resolved", "none", cacheGet(keyOf(call)))
    /\ UNCHANGED <<variant, catalog, inputs, session, app, probe, authFn, now, ticks, accessToken, tokenExpiresAt, issued,
                   cache, arrays, calls, firstStored>>

\* fetchSongsByMood misses the cache and runs up to its first request: the
\* token request when the copy authenticates and holds no valid token, the
\* search request otherwise
InvokeMiss(c) ==
    /\ variant \in ClientVariants
    /\ calls[c].pc = "idle"
    /\ budget > 0
    /\ budget' = budget - 1
    /\ \E in \in inputs :
         LET call == callOf(in)
         IN  /\ ~cacheHas(keyOf(call))
             /\ calls' = [calls EXCEPT ![c] =
                   IF variant \in AuthVariants
                        /\ ~tokenValid(accessToken, tokenExpiresAt, now)
                   THEN [call EXCEPT !.pc = "awaitToken", !.nTok = @ + 1]
                   ELSE sendSearch(call)]
    /\ returned' = NoReturn
    /\ UNCHANGED <<variant, catalog, inputs, session, app, probe, authFn, now, ticks, accessToken, tokenExpiresAt, issued,
                   cache, arrays, firstStored>>

\* a request reaches a handler of a proxy (app.get routes GET requests
\* only): the function answers a method other than GET with 405; otherwise the handler asks for the token, which
\* is returned from the cache or requested
HandlerInvoke(c) ==
    /\ variant \in ServerVariants
    /\ calls[c].pc = "idle"
    /\ budget > 0
    /\ budget' = budget - 1
    /\ \E method \in IF variant = V_ProxyServer THEN {"GET"} ELSE Methods :
         IF variant = V_NetlifyFunction /\ method # "GET"
         THEN /\ returned' = [respond(IdleCall, 405, "method") EXCEPT !.method = method]
              /\ calls' = calls
         ELSE /\ returned' = NoReturn
              /\ calls' = [calls EXCEPT ![c] =
                    IF holdsValidToken(variant, accessToken, tokenExpiresAt, now)
                    THEN sendUpstream(IdleCall)
                    ELSE [IdleCall EXCEPT !.pc = "awaitToken", !.nTok = @ + 1]]
    /\ UNCHANGED <<variant, catalog, inputs, session, app, probe, authFn, now, ticks, accessToken, tokenExpiresAt, issued,
                   cache, arrays, firstStored>>

\* the token request fails: the token operation throws; fetchSongsByMood
\* rejects in every copy that authenticates, a handler answers 500
TokenFailure(c) ==
    /\ calls[c].pc = "awaitToken"
    /\ IF retryToken(calls[c])
       THEN /\ calls' = [calls EXCEPT ![c].nTok = @ + 1]
            /\ returned' = NoReturn
       ELSE /\ calls' = [calls EXCEPT ![c] = IdleCall]
            /\ returned' = IF variant \in ServerVariants
                           THEN respond(calls[c], 500, "auth")
                           ELSE settle(calls[c], FALSE, onAuthError(variant), "auth",
                                       IF onAuthError(variant) = "resolved"
                                       THEN newArray(calls[c], <<>>)
                                       ELSE NoList)
    /\ arrays' = IF variant \in ClientVariants /\ ~retryToken(calls[c])
                    /\ onAuthError(variant) = "resolved"
                 THEN arrays + 1 ELSE arrays
    /\ UNCHANGED <<variant, catalog, inputs, session, app, probe, authFn, now, ticks, accessToken, tokenExpiresAt, issued,
                   cache, budget, firstStored>>

\* an exchange that stores the new token but never shortens the expiry
TokenSuccessKeepsLaterExpiry(c) ==
    /\ calls[c].pc = "awaitToken"
    /\ \E expires_in \in ExpiresInChoices :
         /\ issued' = Append(issued, expires_in)
         /\ accessToken' = Len(issued) + 1
         /\ tokenExpiresAt' =
               IF storedExpiry(variant, now, expires_in) > tokenExpiresAt
               THEN storedExpiry(variant, now, expires_in) ELSE tokenExpiresAt
    /\ calls' = [calls EXCEPT ![c] =
          IF variant \in ServerVariants THEN sendUpstream(@) ELSE sendSearch(@)]
    /\ returned' = NoReturn
    /\ UNCHANGED <<variant, catalog, inputs, session, app, probe, authFn, now, ticks, cache, arrays, budget, firstStored>>

\* the token request succeeds: the token and its expiry are stored and the
\* caller goes on to its first API request
TokenSuccess(c) ==
    /\ calls[c].pc = "awaitToken"
    /\ \E expires_in \in ExpiresInChoices :
         /\ issued' = Append(issued, expires_in)
         /\ accessToken' = Len(issued) + 1
         /\ tokenExpiresAt' = storedExpiry(variant, now, expires_in)
    /\ calls' = [calls EXCEPT ![c] =
          IF variant \in ServerVariants THEN sendUpstream(@) ELSE sendSearch(@)]
    /\ returned' = NoReturn
    /\ UNCHANGED <<variant, catalog, inputs, session, app, probe, authFn, now, ticks, cache, arrays, budget, firstStored>>

\* the Spotify API answers a handler's request: 200 with the body
UpstreamSuccess(c) ==
    /\ calls[c].pc = "awaitUpstream"
    /\ returned' = respond(calls[c], 200, "none")
    /\ calls' = [calls EXCEPT ![c] = IdleCall]
    /\ UNCHANGED <<variant, catalog, inputs, session, app, probe, authFn, now, ticks, accessToken, tokenExpiresAt, issued,
                   cache, arrays, budget, firstStored>>

\* a handler's request fails, with an error response or without any: the
\* express routes answer 500, the function error.response.status or 500
UpstreamFailure(c) ==
    /\ calls[c].pc = "awaitUpstream"
    /\ \E status \in ErrorStatuses \cup {0} :
         returned' = [respond(calls[c], errorStatus(variant, status), "upstream")
                         EXCEPT !.upstream = status]
    /\ calls' = [calls EXCEPT ![c] = IdleCall]
    /\ UNCHANGED <<variant, catalog, inputs, session, app, probe, authFn, now, ticks, accessToken, tokenExpiresAt, issued,
                   cache, arrays, budget, firstStored>>

\* the outer catch of fetchSongsByMood runs for call c
OuterCatch(c, err) ==
    /\ IF onOuterCatch(variant) = "rejected"
       THEN /\ returned' = settle(calls[c], FALSE, "rejected", err, NoList)
            /\ arrays' = arrays
       ELSE /\ returned' = settle(calls[c], FALSE, "resolved", err,
                                  newArray(calls[c], <<>>))
            /\ arrays' = arrays + 1
    /\ calls' = [calls EXCEPT ![c] = IdleCall]

\* the search request fails
SearchFailure(c) ==
    /\ calls[c].pc = "awaitSearch"
    /\ OuterCatch(c, "search")
    /\ UNCHANGED <<variant, catalog, inputs, session, app, probe, authFn, now, ticks, accessToken, tokenExpiresAt, issued,
                   cache, budget, firstStored>>

\* the search response arrives: playlists.map(async (pl) => ...) runs each
\* closure up to its axios.get, so every track request is sent in this step
SearchSuccess(c) ==
    /\ calls[c].pc = "awaitSearch"
    /\ LET read == playlistsOf(variant, catalog)
           playlists == limitTo(read.items, calls[c].playlistLimit)
       IN  IF read.throws
           THEN OuterCatch(c, "shape")
           ELSE /\ calls' = [calls EXCEPT ![c] =
                     [@ EXCEPT !.pc = "awaitTracks",
                               !.playlists = playlists,
                               !.fetch = [i \in 1..Len(playlists) |->
                                            IF playlists[i].id = 0 THEN "skipped"
                                            ELSE "pending"],
                               !.nested = [i \in 1..Len(playlists) |-> <<>>],
                               !.nTrack = Cardinality({i \in 1..Len(playlists) :
                                                         playlists[i].id # 0})]]
                /\ returned' = NoReturn
                /\ arrays' = arrays
    /\ UNCHANGED <<variant, catalog, inputs, session, app, probe, authFn, now, ticks, accessToken, tokenExpiresAt, issued,
                   cache, budget, firstStored>>

\* closures of the proxy copy that push into one array as they complete,
\* as the other copies do
TrackSuccessPushes(c, i) ==
    /\ calls[c].pc = "awaitTracks"
    /\ i \in 1..Len(calls[c].fetch)
    /\ calls[c].fetch[i] = "pending"
    /\ LET pl == calls[c].playlists[i].id
           page == limitTo(catalog.pages[pl], calls[c].trackLimit)
           done == IF pageThrows(page) THEN "threw" ELSE "ok"
       IN  calls' = [calls EXCEPT ![c] =
                 IF variant = V_NetlifyProxy
                 THEN [@ EXCEPT !.fetch[i] = done, !.order = Append(@, i),
                                !.nested[1] = @ \o mappedItems(page, pl)]
                 ELSE [@ EXCEPT !.fetch[i] = done, !.order = Append(@, i),
                                !.tracks = @ \o processItems(page, pl)]]
    /\ UNCHANGED <<variant, catalog, inputs, session, app, probe, authFn, now, ticks, accessToken, tokenExpiresAt, issued,
                   cache, arrays, budget, firstStored>>
    /\ returned' = NoReturn

\* closures that assign their tracks to the shared array instead of pushing
TrackSuccessOverwrites(c, i) ==
    /\ calls[c].pc = "awaitTracks"
    /\ i \in 1..Len(calls[c].fetch)
    /\ calls[c].fetch[i] = "pending"
    /\ LET pl == calls[c].playlists[i].id
           page == limitTo(catalog.pages[pl], calls[c].trackLimit)
           done == IF pageThrows(page) THEN "threw" ELSE "ok"
       IN  calls' = [calls EXCEPT ![c] =
                 IF variant = V_NetlifyProxy
                 THEN [@ EXCEPT !.fetch[i] = done, !.order = Append(@, i),
                                !.nested[i] = mappedItems(page, pl)]
                 ELSE [@ EXCEPT !.fetch[i] = done, !.order = Append(@, i),
                                !.tracks = processItems(page, pl)]]
    /\ UNCHANGED <<variant, catalog, inputs, session, app, probe, authFn, now, ticks, accessToken, tokenExpiresAt, issued,
                   cache, arrays, budget, firstStored>>
    /\ returned' = NoReturn

\* one playlist's tracks arrive and are processed; when the callback throws
\* the inner catch runs ("threw"), after the pushes made so far
TrackSuccess(c, i) ==
    /\ calls[c].pc = "awaitTracks"
    /\ i \in 1..Len(calls[c].fetch)
    /\ calls[c].fetch[i] = "pending"
    /\ LET pl == calls[c].playlists[i].id
           page == limitTo(catalog.pages[pl], calls[c].trackLimit)
           done == IF pageThrows(page) THEN "threw" ELSE "ok"
       IN  calls' = [calls EXCEPT ![c] =
                 IF variant = V_NetlifyProxy
                 THEN [@ EXCEPT !.fetch[i] = done, !.order = Append(@, i),
                                !.nested[i] = mappedItems(page, pl)]
                 ELSE [@ EXCEPT !.fetch[i] = done, !.order = Append(@, i),
                                !.tracks = @ \o processItems(page, pl)]]
    /\ UNCHANGED <<variant, catalog, inputs, session, app, probe, authFn, now, ticks, accessToken, tokenExpiresAt, issued,
                   cache, arrays, budget, firstStored>>
    /\ returned' = NoReturn

\* an inner catch that drops the stored token when a track request fails
TrackFailureDropsToken(c, i) ==
    /\ calls[c].pc = "awaitTracks"
    /\ i \in 1..Len(calls[c].fetch)
    /\ calls[c].fetch[i] = "pending"
    /\ calls' = [calls EXCEPT ![c].fetch[i] = "failed", ![c].order = Append(@, i)]
    /\ accessToken' = 0
    /\ tokenExpiresAt' = 0
    /\ UNCHANGED <<variant, catalog, inputs, session, app, probe, authFn, now, ticks, issued,
                   cache, arrays, budget, firstStored>>
    /\ returned' = NoReturn

\* one playlist's request fails: the inner catch
TrackFailure(c, i) ==
    /\ calls[c].pc = "awaitTracks"
    /\ i \in 1..Len(calls[c].fetch)
    /\ calls[c].fetch[i] = "pending"
    /\ calls' = [calls EXCEPT ![c].fetch[i] = "failed", ![c].order = Append(@, i)]
    /\ UNCHANGED <<variant, catalog, inputs, session, app, probe, authFn, now, ticks, accessToken, tokenExpiresAt, issued,
                   cache, arrays, budget, firstStored>>
    /\ returned' = NoReturn

\* every closure has settled and the join is over: de-duplicate, store, return
Join(c) ==
    /\ calls[c].pc = "awaitTracks"
    /\ joinOver(calls[c].fetch)
    /\ LET tracks == IF variant = V_NetlifyProxy THEN flat(calls[c].nested)
                     ELSE calls[c].tracks
           uniqueTracks == newArray(calls[c], uniqueTracksOf(tracks))
           key == keyOf(calls[c])
       IN  IF promiseAllOutcome(calls[c].fetch) = "resolved"
           THEN /\ cache' = cacheSet(key, uniqueTracks)
                /\ returned' = settle([calls[c] EXCEPT !.tracks = tracks], FALSE,
                                      "resolved", "none", uniqueTracks)
                /\ firstStored' = [firstStored EXCEPT ![key] =
                                      IF @ = 0 THEN arrays + 1 ELSE @]
                /\ arrays' = arrays + 1
                /\ calls' = [calls EXCEPT ![c] = IdleCall]
           ELSE /\ OuterCatch(c, "tracks")
                /\ UNCHANGED <<cache, firstStored>>
    /\ UNCHANGED <<variant, catalog, inputs, session, app, probe, authFn, now, ticks, accessToken, tokenExpiresAt, issued,
                   budget>>

\* time passes (only the modules with a token read the clock)
Tick ==
    /\ variant \in TokenVariants
    /\ ticks < MaxTicks
    /\ ticks' = ticks + 1
    /\ now' = now + TickMs
    /\ returned' = NoReturn
    /\ UNCHANGED <<variant, catalog, inputs, session, app, probe, authFn, accessToken, tokenExpiresAt, issued, cache, arrays,
                   calls, budget, firstStored>>

\* the steps of the calls
Step ==
    \/ \E c \in Calls : InvokeHit(c)
    \/ \E c \in Calls : InvokeMiss(c)
    \/ \E c \in Calls : HandlerInvoke(c)
    \/ \E c \in Calls : TokenFailure(c)
    \/ \E c \in Calls : TokenSuccess(c)
    \/ \E c \in Calls : UpstreamSuccess(c)
    \/ \E c \in Calls : UpstreamFailure(c)
    \/ \E c \in Calls : SearchFailure(c)
    \/ \E c \in Calls : SearchSuccess(c)
    \/ \E c \in Calls, i \in 1..MaxPlaylists : TrackSuccess(c, i)
    \/ \E c \in Calls, i \in 1..MaxPlaylists : TrackFailure(c, i)
    \/ \E c \in Calls : Join(c)

Next == Step \/ Tick

\* the catalog of section 8's example with one more track that passes
OverlapCatalog ==
    [body |-> Body_List,
     ranking |-> [i \in PlaylistIds |-> [id |-> i]],
     pages |-> [i \in PlaylistIds |-> IF i = 1 THEN PageB ELSE PageA]]

\* callers that wait for one call before they make the next; the catalog
\* matters to the copies of fetchSongsByMood only
Init ==
    /\ InitState
    /\ inputs = MoodMarketPairs
    /\ catalog \in Catalogs
    /\ variant \in ServerVariants => catalog = OverlapCatalog
    /\ calls = [c \in Calls |-> IF c = 1 THEN IdleCall ELSE OffCall]
    /\ budget = MaxInvocations

Spec == Init /\ [][Next]_vars

\* every request settles, and the continuation of a settled await runs
Settles ==
    \A c \in Calls :
        /\ WF_vars(TokenSuccess(c) \/ TokenFailure(c))
        /\ WF_vars(SearchSuccess(c) \/ SearchFailure(c))
        /\ WF_vars(UpstreamSuccess(c) \/ UpstreamFailure(c))
        /\ \A i \in 1..MaxPlaylists : WF_vars(TrackSuccess(c, i) \/ TrackFailure(c, i))
        /\ WF_vars(Join(c))

LiveSpec == Init /\ [][Next]_vars /\ Settles

\* callers whose moods and markets hold underscores
InitUnderscore ==
    /\ InitState
    /\ inputs = UnderscorePairs
    /\ catalog \in Catalogs
    /\ variant \in ServerVariants => catalog = OverlapCatalog
    /\ calls = [c \in Calls |-> IF c = 1 THEN IdleCall ELSE OffCall]
    /\ budget = MaxInvocations

UnderscoreSpec == InitUnderscore /\ [][Next]_vars

\* playlists whose pages start with different tracks and share one
InitOrder ==
    /\ InitState
    /\ inputs = MoodMarketPairs
    /\ \/ /\ variant \in ServerVariants
          /\ catalog = OverlapCatalog
       \/ /\ variant \in ClientVariants
          /\ catalog \in [body : {Body_List}, ranking : SearchResponses,
                           pages : [PlaylistIds -> {PageB, PageD}]]
    /\ calls = [c \in Calls |-> IF c = 1 THEN IdleCall ELSE OffCall]
    /\ budget = MaxInvocations

OrderSpec == InitOrder /\ [][Next]_vars

\* the limits the callers pass
PlaylistLimits == {1, DefaultPlaylistLimit}
TrackLimits == {1, 2, DefaultTrackLimit}

\* callers that ask for one mood and market with limits of their choice
InitLimits ==
    /\ InitState
    /\ inputs = {<<in[1], in[2], pl, tl>> :
                   in \in {<<Str_sad, Str_US>>}, pl \in PlaylistLimits, tl \in TrackLimits}
    /\ catalog = OverlapCatalog
    /\ calls = [c \in Calls |-> IF c = 1 THEN IdleCall ELSE OffCall]
    /\ budget = MaxInvocations

LimitSpec == InitLimits /\ [][Next]_vars

\* playlists that hold episodes
InitEpisodes ==
    /\ InitState
    /\ inputs = MoodMarketPairs
    /\ \/ /\ variant \in ServerVariants
          /\ catalog = OverlapCatalog
       \/ /\ variant \in ClientVariants
          /\ catalog \in [body : {Body_List}, ranking : SearchResponses,
                           pages : [PlaylistIds -> {PageB, PageC}]]
    /\ calls = [c \in Calls |-> IF c = 1 THEN IdleCall ELSE OffCall]
    /\ budget = MaxInvocations

EpisodeSpec == InitEpisodes /\ [][Next]_vars

\* the times of an exchange, the lifetimes of its token (s) and the delays
\* of the next call after it (ms)
ExchangeTimes == {0, 1, 1000}
Lifetimes == {0, 59, 60, 61, 120, 3600}
DelaysMs == {0, 1, 999, 1000, 1001, 59999, 60000, 60001, 119999, 120000,
             3539999, 3540000, 3540001, 3599999, 3600000}

\* both token operations find no valid token at t0, exchange and store the
\* token with the expiry each of them computes
ProbeExchange ==
    /\ probe.stage = "empty"
    /\ ~tokenCacheValid(probe.fnToken, probe.fnExpiresAt, probe.t0)
    /\ ~tokenValid(probe.refToken, probe.refExpiresAt, probe.t0)
    /\ probe' = [probe EXCEPT
                    !.stage = "stored",
                    !.fnToken = 1,
                    !.fnExpiresAt = tokenCacheExpiryOf(probe.t0, probe.expires_in),
                    !.refToken = 1,
                    !.refExpiresAt = expiryOf(probe.t0, probe.expires_in)]
    /\ UNCHANGED <<variant, catalog, inputs, session, app, authFn, now, ticks, accessToken,
                   tokenExpiresAt, issued, cache, arrays, calls, budget, returned,
                   firstStored>>

\* both token operations are called again, delay ms after the exchange, and
\* each makes its test
ProbeCall ==
    /\ probe.stage = "stored"
    /\ \E delay \in DelaysMs :
         probe' = [probe EXCEPT
                     !.stage = "decided",
                     !.t = probe.t0 + delay,
                     !.fnReuses = tokenCacheValid(probe.fnToken, probe.fnExpiresAt,
                                                  probe.t0 + delay),
                     !.refReuses = tokenValid(probe.refToken, probe.refExpiresAt,
                                              probe.t0 + delay)]
    /\ UNCHANGED <<variant, catalog, inputs, session, app, authFn, now, ticks, accessToken,
                   tokenExpiresAt, issued, cache, arrays, calls, budget, returned,
                   firstStored>>

InitProbe ==
    /\ variant = V_NetlifyFunction
    /\ session = NoSession
    /\ app = NoApp
    /\ probe \in {[NoProbe EXCEPT !.stage = "empty", !.t0 = t0, !.expires_in = e] :
                     t0 \in ExchangeTimes, e \in Lifetimes}
    /\ authFn = NoAuthFn
    /\ inputs = {}
    /\ catalog = OverlapCatalog
    /\ now = 0 /\ ticks = 0 /\ accessToken = 0 /\ tokenExpiresAt = 0
    /\ issued = <<>>
    /\ cache = [k \in AllKeys |-> NoList]
    /\ arrays = 0
    /\ returned = NoReturn
    /\ firstStored = [k \in AllKeys |-> 0]
    /\ calls = [c \in Calls |-> OffCall]
    /\ budget = 0

ProbeNext == ProbeExchange \/ ProbeCall

ProbeSpec == InitProbe /\ [][ProbeNext]_vars

(***************************************************************************)
(* The spotify-auth function (functions/spotify-auth.js, part_009:280).    *)
(***************************************************************************)
\* invocations of the function
MaxAuthInvocations == 2

\* the two copies of the handler
AuthCopy_Functions == "functions/spotify-auth.js"
AuthCopy_Part009 == "part_009"

\* event.httpMethod
AuthMethods == {"OPTIONS", "POST", "GET", "DELETE"}

\* response.status of the token endpoint
TokenStatuses == {200, 400, 401, 503}

\* response.ok
responseOk(status) == status >= 200 /\ status <= 299

\* the test that lets a missing client secret through
credentialsMissingIdOnly(fn) == ~fn.id

\* !CLIENT_ID || !CLIENT_SECRET
credentialsMissing(fn) == ~fn.id \/ ~fn.secret

\* return { statusCode, headers, body }
authRespond(fn, statusCode, body, access_token, expires_in) ==
    [fn EXCEPT !.pc = "idle",
               !.response = [statusCode |-> statusCode, body |-> body,
                             access_token |-> access_token, expires_in |-> expires_in,
                             method |-> fn.method, nFetch |-> fn.nFetch]]

\* a catch that throws the error on: the promise of the handler rejects
authCatchRethrows(fn) == [fn EXCEPT !.pc = "rejected"]

\* the catch of the handler: 500 with error.message
authCatch(fn) == authRespond(fn, 500, "error", 0, 0)

\* the handler is invoked with an event and runs up to its first await
AuthInvoke ==
    /\ authFn.pc = "idle"
    /\ authFn.left > 0
    /\ \E method \in AuthMethods :
         LET fn == [authFn EXCEPT !.left = @ - 1, !.method = method, !.nFetch = 0,
                                  !.status = 0]
         IN  authFn' =
               IF method = "OPTIONS" THEN authRespond(fn, 200, "", 0, 0)
               ELSE IF method # "POST" THEN authRespond(fn, 405, "error", 0, 0)
               ELSE IF credentialsMissing(fn) THEN authCatch(fn)
               ELSE [fn EXCEPT !.pc = "awaitFetch", !.nFetch = @ + 1]
    /\ UNCHANGED <<variant, catalog, inputs, session, app, probe, now, ticks, accessToken,
                   tokenExpiresAt, issued, cache, arrays, calls, budget, returned,
                   firstStored>>

\* fetch rejects: no response from the token endpoint
AuthFetchFails ==
    /\ authFn.pc = "awaitFetch"
    /\ authFn' = authCatch(authFn)
    /\ UNCHANGED <<variant, catalog, inputs, session, app, probe, now, ticks, accessToken,
                   tokenExpiresAt, issued, cache, arrays, calls, budget, returned,
                   firstStored>>

\* the token endpoint answers: a success status leads to response.json(),
\* any other to the throw (after reading the error body, in functions/)
AuthFetchResponds ==
    /\ authFn.pc = "awaitFetch"
    /\ \E status \in TokenStatuses :
         authFn' =
           IF responseOk(status)
           THEN [authFn EXCEPT !.pc = "awaitJson", !.status = status]
           ELSE IF authFn.copy = AuthCopy_Functions
           THEN [authFn EXCEPT !.pc = "awaitErrorJson", !.status = status]
           ELSE authCatch([authFn EXCEPT !.status = status])
    /\ UNCHANGED <<variant, catalog, inputs, session, app, probe, now, ticks, accessToken,
                   tokenExpiresAt, issued, cache, arrays, calls, budget, returned,
                   firstStored>>

\* await response.json().catch(() => ({})) settles, parsed or not: throw
AuthErrorBodyRead ==
    /\ authFn.pc = "awaitErrorJson"
    /\ authFn' = authCatch(authFn)
    /\ UNCHANGED <<variant, catalog, inputs, session, app, probe, now, ticks, accessToken,
                   tokenExpiresAt, issued, cache, arrays, calls, budget, returned,
                   firstStored>>

\* await response.json() gives the token response: 200 with the token
AuthJsonParsed ==
    /\ authFn.pc = "awaitJson"
    /\ \E expires_in \in ExpiresInChoices :
         authFn' = authRespond(authFn, 200, "token", 1, expires_in)
    /\ UNCHANGED <<variant, catalog, inputs, session, app, probe, now, ticks, accessToken,
                   tokenExpiresAt, issued, cache, arrays, calls, budget, returned,
                   firstStored>>

\* await response.json() rejects: the body of the success response is not JSON
AuthJsonFails ==
    /\ authFn.pc = "awaitJson"
    /\ authFn' = authCatch(authFn)
    /\ UNCHANGED <<variant, catalog, inputs, session, app, probe, now, ticks, accessToken,
                   tokenExpiresAt, issued, cache, arrays, calls, budget, returned,
                   firstStored>>

AuthNext ==
    \/ AuthInvoke
    \/ AuthFetchFails
    \/ AuthFetchResponds
    \/ AuthErrorBodyRead
    \/ AuthJsonParsed
    \/ AuthJsonFails

\* the function is deployed with or without each credential
InitAuthFn ==
    /\ variant = V_NetlifyAuth
    /\ probe = NoProbe
    /\ session = NoSession
    /\ app = NoApp
    /\ authFn \in {[NoAuthFn EXCEPT !.copy = cp, !.id = id, !.secret = secret,
                                     !.left = MaxAuthInvocations, !.pc = "idle"] :
                      cp \in {AuthCopy_Functions, AuthCopy_Part009},
                      id \in BOOLEAN, secret \in BOOLEAN}
    /\ inputs = {}
    /\ catalog = OverlapCatalog
    /\ now = 0 /\ ticks = 0 /\ accessToken = 0 /\ tokenExpiresAt = 0
    /\ issued = <<>>
    /\ cache = [k \in AllKeys |-> NoList]
    /\ arrays = 0
    /\ returned = NoReturn
    /\ firstStored = [k \in AllKeys |-> 0]
    /\ calls = [c \in Calls |-> OffCall]
    /\ budget = 0

AuthFnSpec == InitAuthFn /\ [][AuthNext]_vars

(***************************************************************************)
(* authService, Login and AuthWrapper: the session in the local storage.   *)
(***************************************************************************)
\* logins and logouts the user starts
MaxSessionOps == 3

\* how authAPI.post fails: 0 is no response, else the status of the error response
PostFailures == {0, 401, 500}

\* the variables of the Spotify side
backend ==
    <<variant, catalog, inputs, probe, authFn, now, ticks, accessToken, tokenExpiresAt,
      issued, cache, arrays, calls, budget, returned, firstStored>>

\* localStorage.removeItem('authToken'); localStorage.removeItem('userData')
removeItems(s) == [s EXCEPT !.authToken = 0, !.userData = 0]

\* isAuthenticated: () => !!(token && userData)
isAuthenticated(s) == s.authToken # 0 /\ s.userData # 0

\* the response interceptor: a 401 clears the storage and sends the browser to
\* /login; the error is rejected on
onResponseError(s, status) ==
    IF status = 401 THEN [removeItems(s) EXCEPT !.href = "/login"] ELSE s

\* a logout that clears the storage at the end of the try block only
logoutNoFinally(s, failed) ==
    [(IF failed THEN s ELSE removeItems(s)) EXCEPT !.settled = "resolved",
                                                  !.failed = failed]

\* the catch logs the error, the finally clears the storage, the promise resolves
logout(s, failed) ==
    [removeItems(s) EXCEPT !.settled = "resolved", !.failed = failed]

\* the finally of handleLogout
handleLogoutFinally(s) ==
    [s EXCEPT !.isAuthenticated = FALSE, !.currentUser = 0, !.logout = "idle"]

\* Login.handleSubmit up to await authService.login(...); the form is
\* rendered while the wrapper is not authenticated
LoginSubmit ==
    /\ session.login = "idle"
    /\ ~session.isAuthenticated
    /\ session.left > 0
    /\ session' = [session EXCEPT !.login = "awaitPost", !.left = @ - 1,
                                  !.settled = "none"]
    /\ UNCHANGED backend
    /\ UNCHANGED app

\* authAPI.post('/api/auth/login/') resolves: on success the token and the
\* user are stored and the redirect timer is set; the form is usable again
LoginResponds ==
    /\ session.login = "awaitPost"
    /\ \E success \in BOOLEAN :
         session' =
           IF success
           THEN [session EXCEPT !.authToken = session.logins + 1,
                                !.userData = session.logins + 1,
                                !.logins = @ + 1,
                                !.timers = Append(@, session.logins + 1),
                                !.login = "idle", !.settled = "none"]
           ELSE [session EXCEPT !.login = "idle", !.settled = "none"]
    /\ UNCHANGED backend
    /\ UNCHANGED app

\* authAPI.post('/api/auth/login/') rejects: login throws, the form shows it
LoginRejects ==
    /\ session.login = "awaitPost"
    /\ \E status \in PostFailures :
         session' = [onResponseError(session, status) EXCEPT !.login = "idle",
                                                             !.settled = "none"]
    /\ UNCHANGED backend
    /\ UNCHANGED app

\* setTimeout(() => onLoginSuccess(response.user), 1000): handleLoginSuccess
LoginTimer ==
    /\ session.timers # <<>>
    /\ session' = [session EXCEPT !.isAuthenticated = TRUE,
                                  !.currentUser = Head(session.timers),
                                  !.timers = Tail(@), !.settled = "none"]
    /\ UNCHANGED backend
    /\ UNCHANGED app

\* handleLogout up to await authAPI.post('/api/auth/logout/'); the sidebar
\* is rendered while the wrapper is authenticated
HandleLogout ==
    /\ session.logout = "idle"
    /\ session.isAuthenticated
    /\ session.left > 0
    /\ session' = [session EXCEPT !.logout = "awaitPost", !.left = @ - 1,
                                  !.settled = "none"]
    /\ UNCHANGED backend
    /\ UNCHANGED app

\* the logout request resolves: logout and then handleLogout run to their end
LogoutResolves ==
    /\ session.logout = "awaitPost"
    /\ session' = handleLogoutFinally(logout(session, FALSE))
    /\ UNCHANGED backend
    /\ UNCHANGED app

\* the logout request rejects, after the response interceptor
LogoutRejects ==
    /\ session.logout = "awaitPost"
    /\ \E status \in PostFailures :
         session' = handleLogoutFinally(logout(onResponseError(session, status), TRUE))
    /\ UNCHANGED backend
    /\ UNCHANGED app

SessionNext ==
    \/ LoginSubmit
    \/ LoginResponds
    \/ LoginRejects
    \/ LoginTimer
    \/ HandleLogout
    \/ LogoutResolves
    \/ LogoutRejects

\* AuthWrapper is mounted: checkAuthStatus found a stored session or none
InitSession ==
    /\ variant = V_NetlifyAuth
    /\ probe = NoProbe
    /\ authFn = NoAuthFn
    /\ app = NoApp
    /\ \E stored \in BOOLEAN :
         session = [NoSession EXCEPT !.authToken = IF stored THEN 1 ELSE 0,
                                     !.userData = IF stored THEN 1 ELSE 0,
                                     !.logins = IF stored THEN 1 ELSE 0,
                                     !.currentUser = IF stored THEN 1 ELSE 0,
                                     !.isAuthenticated = stored,
                                     !.login = "idle", !.logout = "idle",
                                     !.left = MaxSessionOps]
    /\ inputs = {}
    /\ catalog = OverlapCatalog
    /\ now = 0 /\ ticks = 0 /\ accessToken = 0 /\ tokenExpiresAt = 0
    /\ issued = <<>>
    /\ cache = [k \in AllKeys |-> NoList]
    /\ arrays = 0
    /\ returned = NoReturn
    /\ firstStored = [k \in AllKeys |-> 0]
    /\ calls = [c \in Calls |-> OffCall]
    /\ budget = 0

SessionSpec == InitSession /\ [][SessionNext]_vars

(***************************************************************************)
(* MainApp and the MoodInput it renders: from a submission to the results. *)
(***************************************************************************)
\* submissions the user makes
MaxSubmissions == 3

\* const [inputMethod, setInputMethod] = useState('dropdown')
InputMethods == {"dropdown", "text", "image"}

\* res.data.emotion.toLowerCase(), "other" being an emotion outside the mapping
Emotions == {"sad", "angry", "fear", "disgust", "happy", "surprise", "neutral", "other"}

\* emotionToMusicMapping[emotion] || 'Party'
emotionToMusicMapping(emotion) ==
    CASE emotion \in {"sad", "disgust", "happy"} -> "Happy"
      [] emotion \in {"angry", "fear"} -> "Calm"
      [] emotion = "surprise" -> "Energetic"
      [] OTHER -> "Party"

\* the moods a dropdown selection or the text detection gives
SelectedMoods == {"chill", "sad"}

\* what fetchSongsByMood resolves with: an empty list or one with songs
SongLists == {"empty", "some"}

\* handleMoodSelect: MoodInput is no longer rendered
handleMoodSelect(a, selectedMood) ==
    [a EXCEPT !.mood = selectedMood, !.currentStep = "loading", !.isLoading = TRUE,
              !.submitting = FALSE, !.error = FALSE]

\* handleSongsFetched
handleSongsFetched(a, fetchedSongs) ==
    [a EXCEPT !.songs = fetchedSongs, !.isLoading = FALSE, !.currentStep = "results"]

\* an error handler that stops the spinner and stays on the step
handleErrorKeepsStep(a) == [a EXCEPT !.isLoading = FALSE]

\* handleError
handleError(a) == [a EXCEPT !.isLoading = FALSE, !.currentStep = "input"]

\* resetToInput
resetToInput(a) ==
    [a EXCEPT !.currentStep = "input", !.songs = "empty", !.mood = "", !.isLoading = FALSE]

\* catch (err) { setError(...); if (onError) onError() } finally { setIsLoading(false) }
submitCatch(a, how) ==
    [handleError(a) EXCEPT !.error = TRUE, !.submitting = FALSE, !.pc = "idle",
                           !.settled = how]

\* handleSubmit up to its first await; the button is disabled while either
\* isLoading is set, and MoodInput is rendered in the input step only
HandleSubmit ==
    /\ app.pc = "idle"
    /\ app.currentStep = "input"
    /\ ~app.submitting /\ ~app.isLoading
    /\ app.left > 0
    /\ \E method \in InputMethods, filled \in BOOLEAN, selectedMood \in SelectedMoods :
         LET a == [app EXCEPT !.left = @ - 1, !.inputMethod = method, !.error = FALSE]
         IN  app' =
               IF ~filled
               THEN [a EXCEPT !.error = TRUE, !.settled = "invalid"]
               ELSE IF method = "dropdown"
               THEN [handleMoodSelect(a, selectedMood) EXCEPT !.pc = "awaitFetch",
                                                              !.settled = "none"]
               ELSE [a EXCEPT !.submitting = TRUE, !.pc = "awaitDetect",
                              !.settled = "none"]
    /\ UNCHANGED backend
    /\ UNCHANGED session

\* the detection request resolves: the mood is read from the response,
\* onMoodSelect is called and fetchSongsByMood is awaited; a response
\* without the field throws into the catch
DetectResolves ==
    /\ app.pc = "awaitDetect"
    /\ \E readable \in BOOLEAN, textMood \in SelectedMoods, emotion \in Emotions :
         LET mood == IF app.inputMethod = "text" THEN textMood
                     ELSE emotionToMusicMapping(emotion)
         IN  app' =
               IF readable
               THEN [handleMoodSelect(app, mood) EXCEPT !.pc = "awaitFetch",
                                                        !.settled = "none"]
               ELSE submitCatch(app, "detectThrew")
    /\ UNCHANGED backend
    /\ UNCHANGED session

\* the detection request rejects
DetectRejects ==
    /\ app.pc = "awaitDetect"
    /\ app' = submitCatch(app, "detectRejected")
    /\ UNCHANGED backend
    /\ UNCHANGED session

\* fetchSongsByMood resolves: onSongsFetched(songs), then the finally
FetchResolves ==
    /\ app.pc = "awaitFetch"
    /\ \E songs \in SongLists :
         app' = [handleSongsFetched(app, songs) EXCEPT !.submitting = FALSE,
                                                       !.pc = "idle",
                                                       !.settled = "fetchResolved"]
    /\ UNCHANGED backend
    /\ UNCHANGED session

\* fetchSongsByMood rejects
FetchRejects ==
    /\ app.pc = "awaitFetch"
    /\ app' = submitCatch(app, "fetchRejected")
    /\ UNCHANGED backend
    /\ UNCHANGED session

\* New Search in the sidebar, Find More Songs under the list: both are
\* rendered with the results only
ResetToInput ==
    /\ app.currentStep = "results"
    /\ app' = [resetToInput(app) EXCEPT !.settled = "none"]
    /\ UNCHANGED backend
    /\ UNCHANGED session

AppNext ==
    \/ HandleSubmit
    \/ DetectResolves
    \/ DetectRejects
    \/ FetchResolves
    \/ FetchRejects
    \/ ResetToInput

\* MainApp is mounted
InitApp ==
    /\ variant = V_NetlifyAuth
    /\ probe = NoProbe
    /\ authFn = NoAuthFn
    /\ session = NoSession
    /\ app = [NoApp EXCEPT !.currentStep = "input", !.songs = "empty", !.mood = "",
                           !.inputMethod = "dropdown", !.pc = "idle",
                           !.left = MaxSubmissions]
    /\ inputs = {}
    /\ catalog = OverlapCatalog
    /\ now = 0 /\ ticks = 0 /\ accessToken = 0 /\ tokenExpiresAt = 0
    /\ issued = <<>>
    /\ cache = [k \in AllKeys |-> NoList]
    /\ arrays = 0
    /\ returned = NoReturn
    /\ firstStored = [k \in AllKeys |-> 0]
    /\ calls = [c \in Calls |-> OffCall]
    /\ budget = 0

AppSpec == InitApp /\ [][AppNext]_vars

\* callers that overlap, within one tick of the clock
InitOverlap ==
    /\ InitState
    /\ inputs = MoodMarketPairs
    /\ catalog = OverlapCatalog
    /\ calls = [c \in Calls |-> IdleCall]
    /\ budget = MaxOverlapInvocations

OverlapSpec == InitOverlap /\ [][Step]_vars

(***************************************************************************)
(* The claims.                                                             *)
(***************************************************************************)
\* the key of the call that settled in the step just taken
ReturnedKey == cacheKey(returned.mood, returned.market)

\* a call of fetchSongsByMood settled in the step just taken
ClientSettled == returned.outcome # "none" /\ returned.status = 0

\* a call of fetchSongsByMood got past its search and its join
PipelineSettled ==
    ClientSettled /\ ~returned.hit /\ returned.err \notin {"auth", "search", "shape"}

NoRequests(r) == r.nTok = 0 /\ r.nSearch = 0 /\ r.nTrack = 0

DistinctIds(items) ==
    \A i, j \in 1..Len(items) : i # j => items[i].id # items[j].id

\* the names whose lowercase form contains a blocklist entry
BlockedTitles ==
    {n \in TrackNames : \E kw \in BLOCKED_KEYWORDS : includes(toLowerCase(n), kw)}

\* a raw item that carries a track with an id and a name that is not blocked
Passing(item) ==
    /\ item.track # <<>>
    /\ item.track[1].id # NULL
    /\ item.track[1].name \notin BlockedTitles

\* the lists a caller or the cache holds
HeldLists == {cache[k] : k \in AllKeys} \cup {returned.ret}

\* the indices of ts that hold the first record of their id
FirstIndices(ts) == {i \in 1..Len(ts) : \A j \in 1..(i - 1) : ts[j].id # ts[i].id}

RECURSIVE KeepFirst(_, _)
\* ts from index i on, with every record whose id came earlier removed
KeepFirst(ts, i) ==
    IF i > Len(ts) THEN <<>>
    ELSE (IF i \in FirstIndices(ts) THEN <<ts[i]>> ELSE <<>>) \o KeepFirst(ts, i + 1)

\* C1 as stated: once a call has stored its list under a key, every later
\* call for that key returns that very list object and sends no request.
\* (The first list stored under the key stands for "its list": a later call
\* is one made after that store.)
C1_LaterCallReturnsThatList ==
    returned.hit =>
        /\ returned.ret.ref = firstStored[ReturnedKey]
        /\ NoRequests(returned)

\* C1 amended: a call made while the cache holds an entry for its key
\* returns the very list object the cache holds for that key at that moment
\* (the list of the call that stored last), sends no token, search or track
\* request and changes nothing; and no call made while its key is cached
\* goes on to the network.
C1_CacheHitReturnsStoredList ==
    [][/\ returned'.hit =>
            /\ returned'.outcome = "resolved"
            /\ returned'.ret.ref # 0
            /\ returned'.ret = cache[cacheKey(returned'.mood, returned'.market)]
            /\ NoRequests(returned')
            /\ cache' = cache /\ calls' = calls
            /\ accessToken' = accessToken /\ tokenExpiresAt' = tokenExpiresAt
       /\ \A c \in Calls :
            (variant \in ClientVariants /\ calls[c].pc = "idle" /\ calls'[c].pc # "idle")
                => ~cacheHas(keyOf(calls'[c]))]_vars

\* C1: a call was answered from the cache with a list that holds tracks
C1_Witness == returned.hit /\ returned.ret.items # <<>>

\* C2: when some playlists' track fetches fail and others succeed, the call
\* resolves; every track of the list comes from a playlist whose fetch
\* succeeded, every passing track of those playlists is in the list, and a
\* playlist whose fetch failed contributes none.
C2_PartialFailureIsolated ==
    LET f == returned.fetch
        pl(i) == returned.playlists[i].id
        items == returned.ret.items
    IN  (/\ ClientSettled
         /\ \E i \in 1..Len(f) : f[i] = "failed"
         /\ \E j \in 1..Len(f) : f[j] = "ok")
        => /\ returned.outcome = "resolved"
           /\ \A k \in 1..Len(items) :
                \E j \in 1..Len(f) : f[j] = "ok" /\ pl(j) = items[k].src
           /\ \A i \in 1..Len(f) : f[i] = "failed" =>
                \A k \in 1..Len(items) : items[k].src # pl(i)
           /\ \A j \in 1..Len(f) : f[j] = "ok" =>
                \A n \in 1..Len(catalog.pages[pl(j)]) :
                    Passing(catalog.pages[pl(j)][n]) =>
                        \E k \in 1..Len(items) :
                            items[k].id = catalog.pages[pl(j)][n].track[1].id

\* C2: a call resolved with tracks although one of its playlists failed
C2_Witness ==
    /\ ClientSettled
    /\ returned.fetch \in {<<"failed", "ok">>, <<"ok", "failed">>}
    /\ returned.ret.items # <<>>

\* C3: in the copies that authenticate, a failed token exchange makes
\* fetchSongsByMood reject, with no search and no track request sent and no
\* entry in the cache for the key (the cache is left as it was).
C3_AuthFailureRejects ==
    [][(variant \in AuthVariants /\ returned'.err = "auth") =>
            /\ returned'.outcome = "rejected"
            /\ returned'.nSearch = 0 /\ returned'.nTrack = 0
            /\ cache' = cache
            /\ ~cacheHas(cacheKey(returned'.mood, returned'.market))]_vars

\* C3: a call ended with a failed token exchange
C3_Witness ==
    variant \in AuthVariants /\ returned.err = "auth" /\ returned.nTok = 1

\* C4 as stated: a failed search request rejects the call, in every copy,
\* and nothing is stored for the key.
C4_SearchFailureRejects ==
    (ClientSettled /\ returned.err = "search") =>
        /\ returned.outcome = "rejected"
        /\ ~cacheHas(ReturnedKey)

\* C5: the ids of every returned list and of every cache entry are pairwise
\* distinct.
C5_DistinctIds == \A l \in HeldLists : DistinctIds(l.items)

\* C5: a call resolved after its playlists delivered the same id twice
C5_Witness ==
    /\ PipelineSettled
    /\ ~DistinctIds(returned.tracks)
    /\ returned.ret.items # <<>>

\* C6: no track of a returned list or cache entry has a title whose
\* lowercase form contains a blocklist entry.
C6_NoBlockedTitle ==
    \A l \in HeldLists : \A k \in 1..Len(l.items) :
        l.items[k].title \in TrackNames \ BlockedTitles

\* C6: a call resolved with tracks from a playlist that also holds a blocked title
C6_Witness ==
    /\ PipelineSettled
    /\ returned.ret.items # <<>>
    /\ \E i \in 1..Len(returned.fetch) :
         /\ returned.fetch[i] = "ok"
         /\ \E n \in 1..Len(catalog.pages[returned.playlists[i].id]) :
              LET item == catalog.pages[returned.playlists[i].id][n]
              IN  item.track # <<>> /\ item.track[1].name \in BlockedTitles

\* C7 as stated: the list is the flattened sequence with every later
\* duplicate removed, so the record kept for an id is the first one met.
C7_KeepsFirstRecord ==
    PipelineSettled => returned.ret.items = KeepFirst(returned.tracks, 1)

\* C8: authenticateSpotify and getSpotifyToken return the stored token with
\* no request exactly when a token is stored and now < expiresAt - 60 s; in
\* every other state they send one token request, and a successful exchange
\* stores the returned token with expiresAt = now + expires_in * 1000.
C8_TokenReuseOrRefresh ==
    [][(variant \in AuthVariants \cup {V_ProxyServer}) =>
        /\ \A c \in Calls :
             (calls[c].pc = "idle" /\ calls'[c].pc # "idle") =>
                 IF accessToken # 0 /\ now < tokenExpiresAt - 60000
                 THEN /\ calls'[c].nTok = 0
                      /\ calls'[c].pc \in {"awaitSearch", "awaitUpstream"}
                      /\ accessToken' = accessToken
                      /\ tokenExpiresAt' = tokenExpiresAt
                 ELSE /\ calls'[c].nTok = 1
                      /\ calls'[c].pc = "awaitToken"
        /\ \A c \in Calls :
             (calls[c].pc = "awaitToken" /\ calls'[c].pc \notin {"awaitToken", "idle"}) =>
                 /\ calls'[c].nTok = 1
                 /\ Len(issued') = Len(issued) + 1
                 /\ accessToken' = Len(issued')
                 /\ tokenExpiresAt' = now + issued'[Len(issued')] * 1000]_vars

\* C8: a call goes on with the stored token, which a later tick will expire
C8_Witness ==
    /\ variant \in AuthVariants \cup {V_ProxyServer}
    /\ accessToken # 0
    /\ now > 0
    /\ \E c \in Calls :
         calls[c].pc \in {"awaitSearch", "awaitUpstream"} /\ calls[c].nTok = 0

\* C9: a failed token exchange is not repeated within the invocation: the
\* call has sent exactly one token request and no other request, and it
\* fails to its caller (fetchSongsByMood rejects, a handler answers 500);
\* no call ever has more than one token request behind it.
C9_NoRetryOnAuthFailure ==
    /\ \A c \in Calls : calls[c].nTok <= 1
    /\ returned.err = "auth" =>
         /\ returned.nTok = 1
         /\ returned.nSearch = 0 /\ returned.nTrack = 0 /\ returned.nUpstream = 0
         /\ variant \in ClientVariants => returned.outcome = "rejected"
         /\ variant \in ServerVariants => returned.status = 500
         /\ \A c \in Calls : calls[c].pc # "awaitToken"

\* C9: a handler answered after its token exchange failed
C9_Witness ==
    variant \in ServerVariants /\ returned.err = "auth" /\ returned.status = 500

\* C10: when the search succeeds with zero playlists, the call resolves
\* with an empty list, sends no track request and does not fail.
C10_NoPlaylistsGivesEmptyList ==
    (PipelineSettled /\ returned.playlists = <<>>) =>
        /\ returned.outcome = "resolved"
        /\ returned.err = "none"
        /\ returned.ret.ref # 0
        /\ returned.ret.items = <<>>
        /\ returned.nTrack = 0

\* C10: a call got an empty search result and settled
C10_Witness ==
    PipelineSettled /\ returned.playlists = <<>> /\ returned.nSearch = 1

\* C11 as stated: when the search succeeds with a body that lacks the list
\* of playlists, the playlist search yields an empty sequence (nothing is
\* thrown) and fetchSongsByMood resolves with an empty list.
C11_MalformedBodyGivesEmptyList ==
    (/\ ClientSettled /\ ~returned.hit
     /\ returned.err \notin {"auth", "search"}
     /\ catalog.body \in MalformedBodies)
    => /\ returned.err = "none"
       /\ returned.outcome = "resolved"
       /\ returned.ret.items = <<>>
       /\ returned.nTrack = 0

\* C12: in one uncached call, the search response sends the track request of
\* every playlist that has an id in the same step, before any of them is
\* awaited; and the call leaves the join (dedup, cache store, return) only
\* when every one of these requests has settled, by success or by failure:
\* no store and no settlement happens while a fetch is pending, whatever
\* the siblings did.
C12_JoinWaitsForAll ==
    [][\A c \in Calls :
        /\ (calls[c].pc = "awaitSearch" /\ calls'[c].pc = "awaitTracks") =>
              /\ Len(calls'[c].fetch) = Len(calls'[c].playlists)
              /\ \A i \in 1..Len(calls'[c].playlists) :
                    calls'[c].fetch[i] =
                        IF calls'[c].playlists[i].id = 0 THEN "skipped" ELSE "pending"
              /\ calls'[c].nTrack =
                    Cardinality({i \in 1..Len(calls'[c].fetch) :
                                   calls'[c].fetch[i] = "pending"})
        /\ (calls[c].pc = "awaitTracks" /\ calls'[c].pc = "awaitTracks") =>
              /\ cache' = cache
              /\ returned'.outcome = "none"
              /\ calls'[c].nTrack = calls[c].nTrack
        /\ (calls[c].pc = "awaitTracks" /\ calls'[c].pc # "awaitTracks") =>
              /\ \A i \in 1..Len(calls[c].fetch) :
                    calls[c].fetch[i] \in {"ok", "threw", "failed", "skipped"}
              /\ returned'.fetch = calls[c].fetch]_vars

\* C12: one fetch has failed while its sibling is still in flight
C12_Witness ==
    \E c \in Calls :
        /\ calls[c].pc = "awaitTracks"
        /\ calls[c].nTrack = 2
        /\ \E i, j \in 1..Len(calls[c].fetch) :
              calls[c].fetch[i] = "failed" /\ calls[c].fetch[j] = "pending"

\* the transitions of a call's position that follow the order of the phases
PhaseOrder ==
    {<<"idle", "awaitToken">>, <<"idle", "awaitSearch">>,
     <<"awaitToken", "awaitSearch">>, <<"awaitToken", "idle">>,
     <<"awaitSearch", "awaitTracks">>, <<"awaitSearch", "idle">>,
     <<"awaitTracks", "awaitTracks">>, <<"awaitTracks", "idle">>}

\* the requests of every call are sent in the order of the phases
PhaseOrderOfCalls ==
    \A c \in Calls :
        /\ (calls'[c] # calls[c]) => (<<calls[c].pc, calls'[c].pc>> \in PhaseOrder)
        /\ (calls'[c].nSearch > calls[c].nSearch) =>
              /\ calls[c].pc \in {"idle", "awaitToken"}
              /\ calls'[c].nSearch = 1
              /\ calls'[c].nTrack = 0
              /\ accessToken' # 0
              /\ now < tokenExpiresAt'
              /\ IF calls[c].pc = "awaitToken"
                 THEN accessToken' = Len(issued') /\ Len(issued') = Len(issued) + 1
                 ELSE accessToken' = accessToken /\ now < tokenExpiresAt - 60000
        /\ (calls'[c].nTrack > calls[c].nTrack) =>
              /\ calls[c].pc = "awaitSearch"
              /\ calls'[c].pc = "awaitTracks"
              /\ calls'[c].nSearch = 1

\* the cache is written by a call that leaves its join and resolves
CacheWrittenLast ==
    (cache' # cache) =>
        /\ \E c \in Calls :
              /\ calls[c].pc = "awaitTracks"
              /\ calls'[c].pc = "idle"
              /\ \A i \in 1..Len(calls[c].fetch) : calls[c].fetch[i] # "pending"
              /\ \A k \in AllKeys : (k # keyOf(calls[c])) => (cache'[k] = cache[k])
              /\ cache'[keyOf(calls[c])] = returned'.ret
        /\ returned'.outcome = "resolved"
        /\ returned'.ret.ref = arrays'

\* C13: in the copies that authenticate, one uncached call goes through
\* token, search, track fetches, filter and dedup, cache store in this
\* order: the search request is sent only once authenticateSpotify has
\* given the call a token (the stored one passed the test, or the call's
\* own exchange succeeded) that has not expired, the track requests are
\* sent only in the step in which the search response arrives, and the
\* cache is written only in the step in which the call resolves with the
\* list it stores, so at most once per call and last.
C13_PhaseOrder ==
    [][(variant \in AuthVariants) => (PhaseOrderOfCalls /\ CacheWrittenLast)]_vars

\* C13: a call that had to ask for its token went through every phase
C13_Witness ==
    /\ variant \in AuthVariants
    /\ PipelineSettled
    /\ returned.nTok = 1 /\ returned.nSearch = 1 /\ returned.nTrack = 2
    /\ cache[ReturnedKey] = returned.ret
    /\ returned.ret.items # <<>>

\* C14: if every request settles, every call of fetchSongsByMood that has
\* started reaches a terminal outcome; a call rejects only when its token
\* exchange failed or at the search (the request failed, or its response
\* could not be read), before any track request was sent; a call that has
\* sent its track requests resolves, however many of them fail.
C14_EveryCallTerminates ==
    /\ \A c \in Calls :
         (variant \in ClientVariants /\ calls[c].pc \notin {"idle", "off"})
             ~> (calls[c].pc = "idle")
    /\ [](returned.outcome = "rejected" =>
            /\ returned.err \in {"auth", "search", "shape"}
            /\ returned.nTrack = 0
            /\ returned.fetch = <<>>)
    /\ []((ClientSettled /\ returned.nTrack > 0) => returned.outcome = "resolved")

\* C14: a call resolved although every one of its track fetches failed
C14_Witness ==
    /\ ClientSettled
    /\ returned.outcome = "resolved"
    /\ returned.fetch = <<"failed", "failed">>
    /\ returned.nTrack = 2

\* every record of the list comes from a playlist this call fetched itself
OwnTracksOnly(r) ==
    \A k \in 1..Len(r.ret.items) :
        /\ \E j \in 1..Len(r.fetch) :
              r.fetch[j] = "ok" /\ r.playlists[j].id = r.ret.items[k].src
        /\ \E n \in 1..Len(r.tracks) : r.tracks[n] = r.ret.items[k]

\* a call for the key of call c, started while c was in flight, has
\* completed its own pipeline
LeavesJoin(c) == calls[c].pc = "awaitTracks" /\ calls'[c].pc = "idle"

\* C15: when calls for one key overlap while the key is not cached, each of
\* them goes to the network (none is answered from the cache) and each one
\* that completes its pipeline resolves and stores its own list under the
\* key, replacing what an earlier one stored: the cache changes only in such
\* a step, holds one entry for the key, the list of the call that wrote
\* last, built only from that call's own fetched tracks, with pairwise
\* distinct ids and no blocked title.
C15_LastWriterWins ==
    [][/\ \A c \in Calls :
            /\ (variant \in ClientVariants /\ calls[c].pc = "idle"
                    /\ calls'[c].pc # "idle") =>
                  /\ ~cacheHas(keyOf(calls'[c]))
                  /\ calls'[c].nSearch + calls'[c].nTok = 1
            /\ LeavesJoin(c) =>
                  /\ returned'.outcome = "resolved"
                  /\ returned'.ret.ref = arrays' /\ arrays' = arrays + 1
                  /\ cache'[keyOf(calls[c])] = returned'.ret
                  /\ \A k \in AllKeys : (k # keyOf(calls[c])) => (cache'[k] = cache[k])
                  /\ OwnTracksOnly(returned')
                  /\ DistinctIds(returned'.ret.items)
                  /\ \A k \in 1..Len(returned'.ret.items) :
                        returned'.ret.items[k].title \in TrackNames \ BlockedTitles
       /\ (cache' # cache) => (\E c \in Calls : LeavesJoin(c))]_vars

\* C15: a call that overlapped another call for its key replaced the list
\* that call had stored, with a list that differs from it
C15_Witness ==
    /\ PipelineSettled
    /\ firstStored[ReturnedKey] \notin {0, returned.ret.ref}
    /\ cache[ReturnedKey] = returned.ret
    /\ returned.fetch = <<"ok", "failed">>

ExchangeSucceeds ==
    \E c \in Calls :
        /\ calls[c].pc = "awaitToken"
        /\ calls'[c].pc \in {"awaitSearch", "awaitUpstream"}
        /\ Len(issued') = Len(issued) + 1
        /\ accessToken' = Len(issued')

\* C17: the stored token and its expiry change only in a step in which a
\* token exchange succeeds; every other step (a hit on the result cache, a
\* call that goes on with the stored token, a failed exchange, a search or
\* track request and its response, failed or not) leaves both as they were.
C17_TokenChangesOnlyOnExchange ==
    [][(accessToken' # accessToken \/ tokenExpiresAt' # tokenExpiresAt)
            => ExchangeSucceeds]_vars

\* C17: the exchange that should have replaced a stored token failed, and
\* the token is still stored
C17_Witness ==
    /\ variant \in TokenVariants
    /\ returned.err = "auth"
    /\ accessToken # 0
    /\ tokenExpiresAt = expiryOf(0, 60) \/ tokenExpiresAt = tokenCacheExpiryOf(0, 120)

\* the ids of the list
IdsOf(items) == {items[k].id : k \in 1..Len(items)}

\* the ids of the items of a page that carry a track with an id and a name
\* that is not blocked
PassingIds(page) == {page[n].track[1].id : n \in {m \in 1..Len(page) : Passing(page[m])}}

\* C18 as stated: the ids of the list an uncached call resolves with are
\* exactly the ids of the raw items, in the responses of the playlists whose
\* request succeeded, that carry a track with an id and a name without a
\* blocked keyword.
C18_IdsAreThePassingItems ==
    (PipelineSettled /\ returned.outcome = "resolved") =>
        IdsOf(returned.ret.items) =
            UNION {PassingIds(catalog.pages[returned.playlists[j].id]) :
                     j \in {i \in 1..Len(returned.fetch) :
                              returned.fetch[i] \in {"ok", "threw"}}}

\* C19: for every lifetime, exchange time and later call time, getAccessToken
\* (expiry now + (expires_in - 60) * 1000, test now < expiresAt) reuses its
\* token exactly when the reference cache (expiry now + expires_in * 1000,
\* test now < expiresAt - 60 s) reuses its own.
C19_SameDecision ==
    probe.stage = "decided" =>
        /\ probe.fnReuses = probe.refReuses
        /\ probe.fnReuses = (probe.t < probe.t0 + probe.expires_in * 1000 - 60000)

\* C19: a call at the very millisecond at which the buffer begins: both refresh
C19_Witness ==
    /\ probe.stage = "decided"
    /\ probe.expires_in > 60
    /\ probe.t = probe.t0 + (probe.expires_in - 60) * 1000
    /\ ~probe.fnReuses /\ ~probe.refReuses

\* C20: the spotify-auth handler sends its request to the token endpoint
\* only for a POST event with client id and client secret both configured;
\* it answers an OPTIONS event 200 with an empty body, any other method
\* than POST 405, and a POST with a credential missing 500, each without a
\* request to Spotify.
C20_AuthRequestsOnlyForConfiguredPost ==
    /\ authFn.nFetch > 0 => (authFn.method = "POST" /\ authFn.id /\ authFn.secret)
    /\ authFn.nFetch <= 1
    /\ authFn.response.method = "OPTIONS" =>
          /\ authFn.response.statusCode = 200
          /\ authFn.response.body = ""
          /\ authFn.response.nFetch = 0
    /\ authFn.response.method \in AuthMethods \ {"OPTIONS", "POST"} =>
          /\ authFn.response.statusCode = 405
          /\ authFn.response.nFetch = 0
    /\ (authFn.response.method = "POST" /\ ~(authFn.id /\ authFn.secret)) =>
          /\ authFn.response.statusCode = 500
          /\ authFn.response.nFetch = 0
    /\ authFn.pc \in {"awaitFetch", "awaitJson", "awaitErrorJson"} =>
          (authFn.method = "POST" /\ authFn.id /\ authFn.secret /\ authFn.nFetch = 1)

\* C20: a POST reached a function that has its client id but not its secret
C20_Witness ==
    /\ authFn.id /\ ~authFn.secret
    /\ authFn.pc = "idle"
    /\ authFn.response.method = "POST"
    /\ authFn.response.statusCode = 500
    /\ authFn.response.nFetch = 0

\* the invocation of the spotify-auth handler that was made last is over
AuthAnswered == authFn.pc = "idle" /\ authFn.response.statusCode # 0

\* C21: the spotify-auth handler never rejects, every invocation ends with
\* a response; a 200 to a POST carries access_token and expires_in and is
\* given only when the token endpoint answered with a success status; the
\* answer to a POST is 500 with an error message when a credential is
\* missing, when the token endpoint answered with another status, and when
\* the request got no response.
C21_AuthHandlerAlwaysAnswers ==
    /\ authFn.pc \in {"off", "idle", "awaitFetch", "awaitJson", "awaitErrorJson"}
    /\ (authFn.pc = "idle" /\ authFn.left < MaxAuthInvocations) =>
          authFn.response.statusCode \in {200, 405, 500}
    /\ (AuthAnswered /\ authFn.response.method = "POST") =>
          /\ authFn.response.statusCode \in {200, 500}
          /\ authFn.response.statusCode = 200 =>
                /\ authFn.status >= 200 /\ authFn.status < 300
                /\ authFn.id /\ authFn.secret
                /\ authFn.response.nFetch = 1
                /\ authFn.response.body = "token"
                /\ authFn.response.access_token # 0
                /\ authFn.response.expires_in \in ExpiresInChoices
          /\ (\/ ~authFn.id \/ ~authFn.secret
              \/ authFn.status >= 300
              \/ authFn.response.nFetch = 1 /\ authFn.status = 0) =>
                /\ authFn.response.statusCode = 500
                /\ authFn.response.body = "error"
                /\ authFn.response.access_token = 0

\* C21: the token endpoint refused the exchange and the handler answered 500
C21_Witness ==
    /\ AuthAnswered
    /\ authFn.response.method = "POST"
    /\ authFn.status = 401
    /\ authFn.response.statusCode = 500
    /\ authFn.response.nFetch = 1

\* C22: the spotify proxy function answers an event that is not a GET with
\* 405, with no token request and no request to the Spotify API; it answers
\* a GET 200 when the API call succeeded, with the status of the API's error
\* response when there was one, and with 500 when there was no response or
\* the access token could not be obtained.
C22_ProxyHandlerStatus ==
    (variant = V_NetlifyFunction /\ returned.status # 0) =>
        /\ returned.outcome = "resolved"
        /\ returned.method # "GET" =>
              /\ returned.status = 405
              /\ returned.nTok = 0 /\ returned.nUpstream = 0
        /\ returned.method = "GET" =>
              /\ returned.err \in {"none", "upstream", "auth"}
              /\ returned.err = "none" =>
                    returned.status = 200 /\ returned.nUpstream = 1
              /\ (returned.err = "upstream" /\ returned.upstream # 0) =>
                    returned.status = returned.upstream /\ returned.nUpstream = 1
              /\ (returned.err = "upstream" /\ returned.upstream = 0) =>
                    returned.status = 500
              /\ returned.err = "auth" =>
                    /\ returned.status = 500
                    /\ returned.nTok = 1 /\ returned.nUpstream = 0

\* C22: the Spotify API answered 404 and the function passed the status on
C22_Witness ==
    /\ variant = V_NetlifyFunction
    /\ returned.method = "GET"
    /\ returned.err = "upstream"
    /\ returned.upstream = 404
    /\ returned.status = 404

(***************************************************************************)
(* C23: authService.logout removes authToken and userData from the local   *)
(* storage and resolves, never rejects, whether the logout request         *)
(* succeeded or failed; when it has returned, isAuthenticated() is false.  *)
(***************************************************************************)
C23_LogoutClearsAndResolves ==
    (session.logout # "off" /\ session.settled # "none") =>
        /\ session.settled = "resolved"
        /\ session.authToken = 0
        /\ session.userData = 0
        /\ ~isAuthenticated(session)

\* a logout whose request got a 500 or no response at all, of a user whose
\* session was in the storage, has resolved
C23_Witness ==
    /\ session.settled = "resolved"
    /\ session.failed
    /\ session.href = "none"
    /\ session.logins > 0
    /\ ~session.isAuthenticated

(***************************************************************************)
(* C24: once a submission has put MainApp in the loading step, the         *)
(* settlement of the request takes it out: to the results when             *)
(* fetchSongsByMood resolved, also with an empty list, to the input when   *)
(* the detection or the fetch rejected; the loading step is held only      *)
(* while a fetch is in flight.                                             *)
(***************************************************************************)
C24_LoadingIsLeft ==
    app.pc # "off" =>
        /\ app.settled = "fetchResolved" =>
              (app.currentStep = "results" /\ ~app.isLoading)
        /\ app.settled \in {"detectRejected", "detectThrew", "fetchRejected"} =>
              (app.currentStep = "input" /\ ~app.isLoading)
        /\ (app.currentStep = "loading" \/ app.isLoading) => app.pc = "awaitFetch"

\* a fetch that rejected has brought the app back from loading to the input
\* step, after an earlier one that resolved with an empty list
C24_Witness ==
    /\ app.settled = "fetchRejected"
    /\ app.currentStep = "input"
    /\ app.left < MaxSubmissions - 1
    /\ app.mood # ""

(***************************************************************************)
(* C25 as stated: the list a call stored under a key when it resolved from *)
(* the pipeline stays the list under that key, so that every later call    *)
(* for the key returns that stored list.                                   *)
(***************************************************************************)
C25_StoredListIsReturnedEverAfter ==
    [][(variant \in ClientVariants) =>
          \A k \in AllKeys : cacheHas(k) => cache'[k] = cache[k]]_vars

\* C25 amended: a call that resolves from the pipeline (its search answered
\* and its join over) stores the list it returns under its key in that very
\* step, an empty list like any other; a call made while the key is cached
\* returns what the cache holds for the key then, the list stored last,
\* empty or not, and has sent no token, search or track request.
C25_PipelineStoresEvenEmpty ==
    (variant \in ClientVariants /\ ClientSettled) =>
        /\ (~returned.hit /\ returned.outcome = "resolved" /\ returned.err = "none") =>
              /\ returned.ret.ref # 0
              /\ cache[ReturnedKey] = returned.ret
        /\ returned.hit =>
              /\ returned.outcome = "resolved"
              /\ returned.ret = cache[ReturnedKey]
              /\ returned.ret.ref # 0
              /\ NoRequests(returned)

\* a call is answered from the cache with the empty list that an earlier
\* call stored when the track fetches of all its playlists had failed (the
\* playlists of the catalog hold tracks that pass)
C25_Witness ==
    /\ variant \in ClientVariants
    /\ catalog = OverlapCatalog
    /\ returned.hit
    /\ returned.ret.ref # 0
    /\ returned.ret.items = <<>>
    /\ NoRequests(returned)

\* the list was computed with the limits recorded with it: its tracks come
\* from the first playlistLimit playlists of the search, trackLimit items of
\* each at most
WithinOwnLimits(list) ==
    /\ \A k \in 1..Len(list.items) : list.items[k].src <= list.playlistLimit
    /\ \A p \in PlaylistIds :
         Cardinality({k \in 1..Len(list.items) : list.items[k].src = p})
            <= list.trackLimit

(***************************************************************************)
(* C26: the limits are not part of the cache key.  A call that goes through *)
(* the pipeline stores a list computed with its own limits; a call made    *)
(* while its mood and market are cached, whatever limits it passes,        *)
(* returns the stored list, computed with the limits of the call that      *)
(* stored it, and sends no request.                                        *)
(***************************************************************************)
C26_LimitsNotInKey ==
    (variant \in ClientVariants /\ ClientSettled) =>
        /\ (~returned.hit /\ returned.outcome = "resolved") =>
              /\ returned.ret.playlistLimit = returned.playlistLimit
              /\ returned.ret.trackLimit = returned.trackLimit
              /\ Len(returned.playlists) <= returned.playlistLimit
              /\ WithinOwnLimits(returned.ret)
        /\ returned.hit =>
              /\ returned.ret = cache[ReturnedKey]
              /\ ReturnedKey = cacheKey(returned.ret.mood, returned.ret.market)
              /\ WithinOwnLimits(returned.ret)
              /\ NoRequests(returned)

\* a call that asks for one playlist and one track of it is answered from
\* the cache with the longer list of an earlier call with the default limits
C26_Witness ==
    /\ returned.hit
    /\ returned.playlistLimit = 1 /\ returned.trackLimit = 1
    /\ returned.ret.playlistLimit = DefaultPlaylistLimit
    /\ returned.ret.trackLimit = DefaultTrackLimit
    /\ Len(returned.ret.items) > 1
    /\ NoRequests(returned)

\* a caller or a handler starts while the module holds no valid token (and,
\* for fetchSongsByMood, no list for its key)
StartsWithoutToken(c) ==
    /\ variant \in TokenVariants
    /\ calls[c].pc = "idle" /\ calls'[c].pc # "idle"
    /\ ~holdsValidToken(variant, accessToken, tokenExpiresAt, now)

\* the stored token and the stored expiry are those of one token response
\* (the clock stands still while the callers overlap)
PairFromOneResponse ==
    \/ accessToken = 0 /\ tokenExpiresAt = 0
    \/ /\ accessToken \in 1..Len(issued)
       /\ tokenExpiresAt = storedExpiry(variant, now, issued[accessToken])

(***************************************************************************)
(* C27: there is no single-flight for the token.  A caller that finds no   *)
(* valid token sends its own token request, also while the request of      *)
(* another caller is in flight, and every answered request is an exchange  *)
(* of its own; the stored token and the stored expiry always come from the *)
(* same token response.                                                    *)
(***************************************************************************)
C27_OwnExchangeSamePair ==
    /\ [][\A c \in Calls :
            /\ StartsWithoutToken(c) =>
                  (calls'[c].pc = "awaitToken" /\ calls'[c].nTok = 1
                      /\ issued' = issued)
            /\ (calls[c].pc = "awaitToken" /\ calls'[c].pc \notin {"awaitToken", "idle"}) =>
                  (Len(issued') = Len(issued) + 1 /\ accessToken' = Len(issued'))]_vars
    /\ [](variant \in TokenVariants => PairFromOneResponse)

\* two callers that overlap have each made their own exchange, with
\* different lifetimes, and the stored pair is that of the second response
C27_Witness ==
    /\ variant \in TokenVariants
    /\ Len(issued) = 2 /\ issued[1] # issued[2]
    /\ accessToken = 2
    /\ tokenExpiresAt = storedExpiry(variant, now, issued[2])
    /\ \E c1, c2 \in Calls :
         /\ c1 # c2
         /\ calls[c1].nTok = 1 /\ calls[c1].pc \notin {"idle", "awaitToken"}
         /\ calls[c2].nTok = 1 /\ calls[c2].pc \notin {"idle", "awaitToken"}

\* the copies whose closures push into one shared array
PushVariants == ClientVariants \ {V_NetlifyProxy}

\* the items of a page the forEach callback gets through: all of them, or
\* those before the first item it throws on
ReadPrefix(page) ==
    IF \E n \in 1..Len(page) : itemThrows(page[n])
    THEN SubSeq(page, 1, (CHOOSE n \in 1..Len(page) :
                              /\ itemThrows(page[n])
                              /\ \A m \in 1..(n - 1) : ~itemThrows(page[m])) - 1)
    ELSE page

\* the ids the answered track requests of the settled call give, whatever
\* the order of the answers
IdsOfResponses ==
    UNION {PassingIds(ReadPrefix(limitTo(catalog.pages[returned.playlists[j].id],
                                         returned.trackLimit))) :
             j \in {i \in 1..Len(returned.fetch) :
                      returned.fetch[i] \in {"ok", "threw"}}}

(***************************************************************************)
(* C28: in the copies that push into a shared array, the set of ids of the *)
(* returned list is fixed by the upstream responses (the search response   *)
(* and, for each playlist, its page or its failure), whatever the order in *)
(* which the track requests complete; the ids of the list are distinct, so *)
(* only their order is left to the completion order.                       *)
(***************************************************************************)
C28_IdSetFixedByResponses ==
    (variant \in PushVariants /\ PipelineSettled /\ returned.outcome = "resolved") =>
        /\ IdsOf(returned.ret.items) = IdsOfResponses
        /\ Len(returned.ret.items) = Cardinality(IdsOfResponses)

\* the page of the second playlist was answered before that of the first:
\* the list starts with a track of the second playlist and holds the ids of
\* both pages
C28_Witness ==
    /\ variant \in PushVariants
    /\ PipelineSettled /\ returned.outcome = "resolved"
    /\ Len(returned.fetch) = 2
    /\ returned.fetch[1] = "ok" /\ returned.fetch[2] \in {"ok", "threw"}
    /\ returned.tracks # <<>>
    /\ returned.tracks[1].src = returned.playlists[2].id
    /\ \E k \in 1..Len(returned.tracks) : returned.tracks[k].src = returned.playlists[1].id
    /\ IdsOf(returned.ret.items) = IdsOfResponses

RECURSIVE PassingFrom(_, _)
\* the ids of the passing items of a page from position n on, in position order
PassingFrom(page, n) ==
    IF n > Len(page) THEN <<>>
    ELSE (IF Passing(page[n]) THEN <<page[n].track[1].id>> ELSE <<>>)
         \o PassingFrom(page, n + 1)

RECURSIVE ByRank(_)
\* the ids the responses of the settled call give, playlist by playlist in
\* search rank from rank j on: the passing items of a page that was read to
\* its end, nothing for a request that failed or a page that made map throw
ByRank(j) ==
    IF j > Len(returned.playlists) THEN <<>>
    ELSE (IF returned.fetch[j] = "ok"
          THEN PassingFrom(limitTo(catalog.pages[returned.playlists[j].id],
                                   returned.trackLimit), 1)
          ELSE <<>>)
         \o ByRank(j + 1)

RECURSIVE FirstOfEach(_, _)
\* ids from index i on, without the ids that came earlier
FirstOfEach(ids, i) ==
    IF i > Len(ids) THEN <<>>
    ELSE (IF \A j \in 1..(i - 1) : ids[j] # ids[i] THEN <<ids[i]>> ELSE <<>>)
         \o FirstOfEach(ids, i + 1)

(***************************************************************************)
(* C29: in the copy that goes through the Netlify proxy, the list returned *)
(* by the pipeline is fixed by the upstream responses: its ids are those   *)
(* of the passing items by search rank of the playlist, then by position   *)
(* in the page, each id at its first place, whatever the order in which    *)
(* the track requests completed.                                           *)
(***************************************************************************)
C29_RankThenPosition ==
    (variant = V_NetlifyProxy /\ PipelineSettled /\ returned.outcome = "resolved") =>
        /\ [k \in 1..Len(returned.ret.items) |-> returned.ret.items[k].id]
              = FirstOfEach(ByRank(1), 1)
        /\ \A k \in 1..Len(returned.ret.items) :
              \E j \in 1..Len(returned.playlists) :
                  /\ returned.fetch[j] = "ok"
                  /\ returned.ret.items[k].src = returned.playlists[j].id

\* the request of the second playlist completed before that of the first,
\* and the list starts with the tracks of the first playlist all the same;
\* the track both pages hold stands where the first playlist has it
C29_Witness ==
    /\ variant = V_NetlifyProxy
    /\ PipelineSettled /\ returned.outcome = "resolved"
    /\ returned.order = <<2, 1>>
    /\ returned.fetch = <<"ok", "ok">>
    /\ catalog.pages[returned.playlists[1].id] = PageB
    /\ catalog.pages[returned.playlists[2].id] = PageD
    /\ Len(returned.ret.items) = 3
    /\ Len(returned.tracks) > Len(returned.ret.items)
    /\ returned.ret.items[1].id = "t2"
    /\ returned.ret.items[3].id = "t5"
    /\ [k \in 1..Len(returned.ret.items) |-> returned.ret.items[k].id]
          = FirstOfEach(ByRank(1), 1)

====
